---- MODULE Spec2Model ----
(***************************************************************************)
(* Model of the feature-extraction service's message pipeline.             *)
(*                                                                         *)
(*   - RabbitMQManager (shared/utils/rabbitmq_utils.py): connect,          *)
(*     publish with its rate limiter, consume, _handle_message with the   *)
(*     ack / nack / backoff / republish decision, disconnect;              *)
(*   - the broker the manager talks to: the primary queue, whose           *)
(*     dead-letter target is the dead-letter queue (_setup_queues);        *)
(*   - the two rate limiters (RabbitMQManager._apply_rate_limit and        *)
(*     GrokClient._apply_rate_limit) driven by a sequential caller.        *)
(*                                                                         *)
(* Time is in whole seconds.  Every await of the code is a separate step,  *)
(* so a cancellation or another task can come in between two awaits and    *)
(* never inside the synchronous code between them.  A task that awaits     *)
(* asyncio.sleep(d) is suspended for d seconds; the queue manager's tasks  *)
(* record the durations they slept, the limiters run against the clock.    *)
(***************************************************************************)
EXTENDS Integers, Sequences, FiniteSets, TLC

(***************************************************************************)
(* Bounds of the model.                                                    *)
(***************************************************************************)
MaxRestPublishes == 1      \* calls of the REST publish endpoint
MaxForeign == 1            \* messages put on the queue by other producers
MaxFaults == 1             \* broker operations that fail (transport loss)
MaxCalls == 5              \* rate-limited calls per limiter instance
MaxIdle == 2               \* idle pauses of the limiter's caller
MaxAcCalls == 2            \* baglanti_ac calls per task
MaxPoolFaults == 1         \* create_pool / close calls that fail
MaxDisconnects == 2        \* disconnect() calls
MaxReconnects == 1         \* recoveries of the robust connection
MaxSharedCalls == 2     \* extract_features calls per task on the shared client
MaxDbCalls == 2         \* calls of the store's retrying operations
MaxExtractCalls == 2       \* extract_and_save calls
StartTime == 60            \* clock reading at construction (time.time() is
                           \* far larger than any interval; 60 is the
                           \* largest interval a limit of 1 gives)

(***************************************************************************)
(* Program constants.                                                      *)
(***************************************************************************)
grok_max_retries == 3      \* config.grok_max_retries (max_retry_count)
max_retries == 3           \* config.rabbitmq_max_retries
retry_delay == 1           \* config.rabbitmq_retry_delay
prefetch_count == 1        \* config.rabbitmq_prefetch_count
delay_time == 60           \* seconds per rate-limit period

Articles == {1, 2}
NoRow == {1}               \* store: article ids that have no row
QueueRateLimits == {0, 4}
LimiterRateLimits == {0, 4, 12}

Callers == {"consumer", "rest"}
Limiters == {"rabbitmq", "grok"}
DbManagers == {"main", "extractor"}   \* main.db_manager, extractor.db_manager
PoolTasks == {"t1", "t2"}             \* tasks that call baglanti_ac concurrently
IdleSteps == {5, 15, 20}   \* seconds the limiter's caller may pause between calls

VARIABLES
    now,                \* the clock (time.time()), seconds
    rate_limit,         \* RabbitMQManager.rate_limit
    connection,         \* RabbitMQManager.connection: "None" | "open" | "closed"
    channel,            \* RabbitMQManager.channel:    "None" | "open" | "closed"
    feature_queue_obj,  \* TRUE when RabbitMQManager.feature_queue_obj is not None
    dlq_queue_obj,      \* TRUE when RabbitMQManager.dlq_queue_obj is not None
    metrics,            \* RabbitMQManager.metrics
    queue,              \* broker: ready messages of the primary queue
    dlq,                \* broker: what reached the dead-letter queue, with the nack site
    cons,               \* the consume task: position, sleep in progress
    hd,                 \* the delivery being handled, and what was done to it
    pub,                \* publish() in progress, per calling task
    pubRes,             \* outcome of each task's latest publish() call
    restCalls,          \* REST publish calls made, per article id
    foreign,            \* messages sent by other producers
    faultsLeft,         \* broker operations that may still fail
    cbLog,              \* per article: retry_count of each callback invocation
    sleepLog,           \* per article: delay of each backoff sleep
    lim,                \* a rate limiter and its caller
    limLog,             \* its calls: when made, when let through, hits counted
    pool,               \* VeriHavuzuYoneticisi.pool per manager object, 0 for None
    pool_lock,          \* VeriHavuzuYoneticisi._pool_lock: holder and waiters
    pools,              \* asyncpg pools: how many were created, which are open
    dbTask,             \* per task: its baglanti_ac / baglanti_kapat call
    poolFaults,         \* create_pool / close calls that may still fail
    svc,                \* main.lifespan: position, enrichment HTTP client,
                        \* extractor.is_connected, pool used per layer
    dc,                 \* RabbitMQManager.disconnect() in progress, and what
                        \* the calls tried to close
    grok,               \* GrokClient: max_retries and the request metrics
    en,                 \* FeatureExtractor.extract_and_save in progress
    rows,               \* store: the rows of extracted_features
    approved,           \* store: news.approved of each article that has a row
    db                  \* haberleri_getir / haber_durumunu_guncelle in progress

qvars == <<rate_limit, connection, channel, feature_queue_obj, dlq_queue_obj,
           metrics, queue, dlq, cons, hd, pub, pubRes, restCalls,
           foreign, faultsLeft, cbLog, sleepLog>>
lvars == <<lim, limLog>>
pvars == <<pool, pool_lock, pools, dbTask, poolFaults, svc>>
evars == <<dc, grok, en, rows, approved, db>>
xvars == <<pvars, evars>>
vars == <<now, qvars, lvars, xvars>>

(***************************************************************************)
(* Messages.  A body is what json.loads makes of it: an object with        *)
(* article_id and retry_count ("obj"), an object without article_id        *)
(* ("noid"), valid JSON that is not an object ("notobj"), or no JSON at    *)
(* all ("notjson").                                                        *)
(***************************************************************************)
NoMsg == [kind |-> "none", article_id |-> 0, retry_count |-> 0]

\* publish(): json.dumps of {"article_id", "retry_count", ...}
\* (article_id 0 stands for None: "article_id": null parses like a missing key)
MessageBody(article_id, retry_count) ==
    [kind |-> IF article_id = 0 THEN "noid" ELSE "obj",
     article_id |-> article_id, retry_count |-> retry_count]

ForeignBodies ==
    {[kind |-> k, article_id |-> 0, retry_count |-> 0] :
        k \in {"noid", "notobj", "notjson"}}
    \cup {MessageBody(2, max_retries + 1), MessageBody(2, max_retries)}

Pow2(n) == 2 ^ n

(***************************************************************************)
(* RabbitMQManager.is_connected                                            *)
(***************************************************************************)
is_connected ==
    IF connection = "None" \/ channel = "None"
    THEN FALSE
    ELSE connection # "closed" /\ channel # "closed"

(***************************************************************************)
(* RabbitMQManager._apply_rate_limit: the time it sleeps.  It sleeps the   *)
(* whole interval on every call; there is no last-call timestamp.          *)
(***************************************************************************)
RmqRateLimitWait(limit) ==
    IF limit = 0 THEN 0 ELSE delay_time \div limit

RmqRateLimitHits(limit) ==
    IF limit = 0 THEN 0 ELSE 1

(***************************************************************************)
(* GrokClient._apply_rate_limit at clock reading t with last_request_time  *)
(* last: the time it sleeps, the hits it counts, the timestamp it leaves   *)
(* when it returns at clock reading t2.                                    *)
(***************************************************************************)
GrokMinInterval(limit) == 60 \div limit

\* variant: the limiter never waits
GrokRateLimitWaitNever(limit, t, last) == 0

GrokRateLimitWait(limit, t, last) ==
    IF limit = 0 THEN 0
    ELSE IF t - last < GrokMinInterval(limit)
         THEN GrokMinInterval(limit) - (t - last)
         ELSE 0

GrokRateLimitHits(limit, t, last) ==
    IF limit = 0 THEN 0
    ELSE IF t - last < GrokMinInterval(limit) THEN 1 ELSE 0

\* variant: the timestamp is taken before the zero-limit return
GrokStampAlways(limit, last, t2) == t2

GrokStamp(limit, last, t2) == IF limit = 0 THEN last ELSE t2

(***************************************************************************)
(* _handle_message: the backoff before the republish.                      *)
(***************************************************************************)
BackoffDelay(retry_count) == retry_delay * Pow2(retry_count)

\* variant: the retry comparison off by one (<= instead of <)
ShouldRetryInclusive(retry_count) == retry_count <= max_retries

\* _handle_message, "if retry_count < self.max_retries"
ShouldRetry(retry_count) == retry_count < max_retries

(***************************************************************************)
(* The callback (main.process_message_wrapper around extract_and_save, or  *)
(* any callable handed to consume): what it can answer for an article.     *)
(* An article without a row always gives False.                            *)
(***************************************************************************)
\* what ends extract_and_save on a failure: the except clause taken
FailureKinds == {"GrokAuthError", "GrokParseError", "GrokConnectionError",
                 "GrokAPIError"}

\* what happens inside the callback: success ("none"), no row, one of the
\* failures, or the callable raises
ExtractOutcomes(m) ==
    IF m.kind = "noid" \/ m.article_id \in NoRow
    THEN {"not_found"}
    ELSE {"none", "raise"} \cup FailureKinds

\* variant: a failure classified terminal is answered differently
process_message_wrapper_terminal(why) ==
    IF why = "none" THEN "True"
    ELSE IF why = "raise" THEN "raise"
    ELSE IF why \in {"GrokAuthError", "GrokParseError"} THEN "Terminal"
    ELSE "False"

\* main.process_message_wrapper: True when extract_and_save returned True,
\* False otherwise, whatever the failure was
process_message_wrapper(why) ==
    IF why = "none" THEN "True"
    ELSE IF why = "raise" THEN "raise"
    ELSE "False"

(***************************************************************************)
(* Broker operations fail when the channel is gone or the transport is     *)
(* lost (at most MaxFaults times).                                         *)
(***************************************************************************)
Outcomes == IF faultsLeft > 0 THEN {TRUE, FALSE} ELSE {TRUE}

Spend(ok) == faultsLeft' = IF ok THEN faultsLeft ELSE faultsLeft - 1

IdlePub == [pc |-> "idle", article_id |-> 0, retry_count |-> 0, delay |-> 0]
\* result of the latest call, and how many calls have completed
NoRes == [result |-> "none", n |-> 0]

\* hd.ev is what _handle_message did to the delivery, in order
NoHd == [msg |-> NoMsg, cb |-> "none", why |-> "none", state |-> "none", ev |-> <<>>,
         slept |-> 0, pubs |-> <<>>, done |-> FALSE, cancelledAt |-> "none"]

(***************************************************************************)
(* Initial state: the objects as constructed (RabbitMQManager.__init__),   *)
(* an empty broker, the consume task not started.                          *)
(***************************************************************************)
\* (task: where each task that shares the limiter is in _apply_rate_limit)
NoLimiter ==
    [kind |-> "none", rate_limit |-> 0, last_request_time |-> 0,
     rate_limit_hits |-> 0, pc |-> "idle", called |-> 0, idles |-> 0,
     task |-> [c \in Callers |-> [pc |-> "idle", calls |-> 0, wake |-> 0]]]

\* a task that is in no storage call
NoDbTask == [pc |-> "idle", mgr |-> "main", closing |-> 0, rets |-> <<>>, calls |-> 0]

\* VeriHavuzuYoneticisi.__init__ for each manager object, no task started,
\* the service not started
InitPools ==
    /\ pool = [m \in DbManagers |-> 0]
    /\ pool_lock = [m \in DbManagers |-> [holder |-> "none", waiters |-> <<>>]]
    /\ pools = [created |-> 0, open |-> {}, made |-> [m \in DbManagers |-> 0]]
    /\ dbTask = [t \in PoolTasks \cup {"lifespan"} |-> NoDbTask]
    /\ svc = [pc |-> "new", client |-> "None", is_connected |-> FALSE,
              consumer_task |-> "None", used |-> [l \in {"rest", "orchestrator"} |-> 0]]

\* GrokClient.__init__
\* (sent_at: the clock at each request sent, in order)
NoGrok == [max_retries |-> grok_max_retries, requests_sent |-> 0,
           requests_success |-> 0, requests_failed |-> 0, parse_errors |-> 0,
           total_tokens_used |-> 0, sent_at |-> <<>>]

\* a record descriptor: what was done to the well-formed record, to which field
NoRecord == <<"none", "">>

\* no extract_and_save call in progress.  start_time is the call's
\* time.time() reading, steps the stages it entered (fetch, enrich,
\* persist), fetched what the store did on the fetch, resp what each send
\* attempt of the call got, waits the backoff sleeps, rec the record of the
\* latest response, raised what extract_features raised, out what
\* extract_and_save returned.
NoEnrich == [pc |-> "idle", calls |-> 0, article_id |-> 0, start_time |-> 0,
             steps |-> <<>>, fetched |-> "none", attempt |-> 0,
             resp |-> <<>>, waits |-> <<>>, rec |-> NoRecord,
             raised |-> "none", out |-> "none"]

\* no disconnect() call in progress; log is what the calls tried to close
NoDisconnect == [pc |-> "idle", calls |-> 0, rets |-> 0, log |-> <<>>]

\* no haberleri_getir / haber_durumunu_guncelle call in progress.  deneme
\* is the loop variable, tried what each attempt got, waits the sleeps
\* (whole seconds and jitter in hundredths), out what the call returned,
\* raised what it raised.
NoDb == [pc |-> "idle", calls |-> 0, op |-> "none", haber_id |-> 0,
         yeni_durum |-> "", max_deneme |-> 0, deneme |-> 0, tried |-> <<>>,
         waits |-> <<>>, out |-> "none", haberler |-> {}, raised |-> "none"]

InitCommon ==
    /\ now = StartTime
    /\ metrics = [messages_published |-> 0, messages_consumed |-> 0,
                  publish_errors |-> 0, consume_errors |-> 0,
                  reconnections |-> 0, rate_limit_hits |-> 0]
    /\ queue = <<>>
    /\ dlq = {}
    /\ hd = NoHd
    /\ pub = [p \in Callers |-> IdlePub]
    /\ pubRes = [p \in Callers |-> NoRes]
    /\ restCalls = [a \in Articles |-> 0]
    /\ foreign = 0
    /\ cbLog = [a \in Articles \cup {0} |-> <<>>]
    /\ sleepLog = [a \in Articles \cup {0} |-> <<>>]
    /\ limLog = <<>>
    /\ InitPools
    /\ dc = NoDisconnect
    /\ en = NoEnrich
    /\ rows = {}
    /\ approved = [a \in Articles \ NoRow |-> "semantik_analiz_icin_sirada"]
    /\ db = NoDb

Init ==
    /\ InitCommon
    /\ poolFaults = 0
    /\ grok = NoGrok
    /\ rate_limit \in QueueRateLimits
    /\ connection = "None"
    /\ channel = "None"
    /\ feature_queue_obj = FALSE
    /\ dlq_queue_obj = FALSE
    /\ cons = [pc |-> "init", delay |-> 0]
    /\ faultsLeft = MaxFaults
    /\ lim = NoLimiter

(***************************************************************************)
(* RabbitMQManager.connect / _setup_queues / disconnect                    *)
(***************************************************************************)
\* the awaits of connect() that can raise, in the order they are made
\* (set_qos leaves the same handles behind as the first declare_queue)
ConnectStages == {"connect_robust", "channel", "declare_dlq", "declare_feature"}

\* connect() returned (ok) or raised ConnectionError at the given await;
\* the except clauses only log and re-raise, what was assigned stays
ConnectHandles(ok, stage) ==
    IF ok
    THEN /\ connection' = "open"
         /\ channel' = "open"
         /\ dlq_queue_obj' = TRUE
         /\ feature_queue_obj' = TRUE
    ELSE /\ connection' = IF stage = "connect_robust" THEN connection ELSE "open"
         /\ channel' = IF stage \in {"connect_robust", "channel"}
                       THEN channel ELSE "open"
         /\ dlq_queue_obj' = IF stage = "declare_feature"
                             THEN TRUE ELSE dlq_queue_obj
         /\ UNCHANGED feature_queue_obj

Connect ==
    /\ connection = "None"
    /\ \E ok \in Outcomes, stage \in ConnectStages :
        /\ Spend(ok)
        /\ ConnectHandles(ok, stage)
    /\ UNCHANGED <<now, rate_limit, metrics, queue, dlq, cons, hd, pub,
                   pubRes, restCalls, foreign, cbLog, sleepLog, lvars, xvars>>

Disconnect ==
    /\ connection # "None"
    /\ cons.pc \in {"init", "cancelled", "crashed"}
    /\ connection' = "None"
    /\ channel' = "None"
    /\ feature_queue_obj' = FALSE
    /\ dlq_queue_obj' = FALSE
    /\ UNCHANGED <<now, rate_limit, metrics, queue, dlq, cons, hd, pub,
                   pubRes, restCalls, foreign, faultsLeft, cbLog, sleepLog, lvars, xvars>>

(***************************************************************************)
(* RabbitMQManager.publish, in three steps: the entry up to the first      *)
(* await (connection check, then the rate limiter's sleep), the wake-up    *)
(* from the sleep, the send.                                               *)
(***************************************************************************)
\* variant: the not-connected failure is not counted in publish_errors
PublishCallUncounted(p, article_id, retry_count) ==
    IF ~is_connected
    THEN /\ pub' = [pub EXCEPT ![p] = IdlePub]
         /\ pubRes' = [pubRes EXCEPT ![p] =
                          [result |-> "PublishError", n |-> @.n + 1]]
         /\ UNCHANGED metrics
    ELSE /\ pub' = [pub EXCEPT ![p] =
                       [pc |-> IF RmqRateLimitWait(rate_limit) = 0
                               THEN "send" ELSE "sleep",
                        article_id |-> article_id,
                        retry_count |-> retry_count,
                        delay |-> RmqRateLimitWait(rate_limit)]]
         /\ pubRes' = [pubRes EXCEPT ![p].result = "none"]
         /\ UNCHANGED metrics

PublishCall(p, article_id, retry_count) ==
    IF ~is_connected
    THEN /\ pub' = [pub EXCEPT ![p] = IdlePub]
         /\ pubRes' = [pubRes EXCEPT ![p] =
                          [result |-> "PublishError", n |-> @.n + 1]]
         /\ metrics' = [metrics EXCEPT !.publish_errors = @ + 1]
    ELSE /\ pub' = [pub EXCEPT ![p] =
                       [pc |-> IF RmqRateLimitWait(rate_limit) = 0
                               THEN "send" ELSE "sleep",
                        article_id |-> article_id,
                        retry_count |-> retry_count,
                        delay |-> RmqRateLimitWait(rate_limit)]]
         /\ pubRes' = [pubRes EXCEPT ![p].result = "none"]
         /\ UNCHANGED metrics

\* the handler's position after entering publish(): inside it, or in its
\* "except Exception" when publish() raised at the connection check
AfterPublishCall == IF is_connected THEN "publishing" ELSE "nack_err"

\* variant: a failed republish leaves _handle_message and ends consume
AfterPublishPropagate(ok) == IF ok THEN "idle" ELSE "crashed"

\* the handler's position after its publish() call returned or raised
AfterPublish(ok) == IF ok THEN "idle" ELSE "nack_err"

PublishWake(p) ==
    /\ pub[p].pc = "sleep"
    /\ metrics' = [metrics EXCEPT !.rate_limit_hits = @ + RmqRateLimitHits(rate_limit)]
    /\ pub' = [pub EXCEPT ![p].pc = "send", ![p].delay = 0]
    /\ hd' = IF p = "consumer"
             THEN [hd EXCEPT !.slept = @ + pub[p].delay,
                             !.ev = Append(@, "sleep")]
             ELSE hd
    /\ UNCHANGED <<now, rate_limit, connection, channel, feature_queue_obj,
                   dlq_queue_obj, queue, dlq, cons, pubRes, restCalls,
                   foreign, faultsLeft, cbLog, sleepLog, lvars, xvars>>

PublishSend(p) ==
    /\ pub[p].pc = "send"
    /\ \E ok \in Outcomes :
        LET sent == ok /\ channel = "open"
            m == MessageBody(pub[p].article_id, pub[p].retry_count)
        IN  /\ Spend(ok)
            /\ queue' = IF sent THEN Append(queue, m) ELSE queue
            /\ metrics' = IF sent
                          THEN [metrics EXCEPT !.messages_published = @ + 1]
                          ELSE [metrics EXCEPT !.publish_errors = @ + 1]
            /\ pubRes' = [pubRes EXCEPT ![p] =
                             [result |-> IF sent THEN "True" ELSE "PublishError",
                              n |-> @.n + 1]]
            /\ pub' = [pub EXCEPT ![p] = IdlePub]
            /\ IF p = "consumer"
               THEN /\ cons' = [cons EXCEPT !.pc = AfterPublish(sent)]
                    /\ hd' = [hd EXCEPT
                                !.pubs = IF sent THEN Append(@, m) ELSE @,
                                !.ev = Append(@, IF sent THEN "publish" ELSE "publish_raised"),
                                !.done = sent]
               ELSE UNCHANGED <<cons, hd>>
    /\ UNCHANGED <<now, rate_limit, connection, channel, feature_queue_obj,
                   dlq_queue_obj, dlq, restCalls, foreign, cbLog,
                   sleepLog, lvars, xvars>>

RECURSIVE SumOver(_, _)
SumOver(f, S) ==
    IF S = {} THEN 0
    ELSE LET x == CHOOSE y \in S : TRUE IN f[x] + SumOver(f, S \ {x})

RestTotal == SumOver(restCalls, Articles)

\* main.queue_article: POST /api/queue/{article_id}
RestPublish(a) ==
    /\ pub["rest"].pc = "idle"
    /\ RestTotal < MaxRestPublishes
    /\ restCalls' = [restCalls EXCEPT ![a] = @ + 1]
    /\ PublishCall("rest", a, 0)
    /\ UNCHANGED <<now, rate_limit, connection, channel, feature_queue_obj,
                   dlq_queue_obj, queue, dlq, cons, hd, foreign,
                   faultsLeft, cbLog, sleepLog, lvars, xvars>>

\* another producer puts a message on the primary queue
ProducerSend(m) ==
    /\ foreign < MaxForeign
    /\ foreign' = foreign + 1
    /\ queue' = Append(queue, m)
    /\ UNCHANGED <<now, rate_limit, connection, channel, feature_queue_obj,
                   dlq_queue_obj, metrics, dlq, cons, hd, pub, pubRes,
                   restCalls, faultsLeft, cbLog, sleepLog, lvars, xvars>>

(***************************************************************************)
(* The broker's routing (_setup_queues): the primary queue is declared     *)
(* with x-dead-letter-exchange "" and x-dead-letter-routing-key = the      *)
(* dead-letter queue, so every message rejected without requeue on the     *)
(* primary queue is routed to the dead-letter queue.  site is the nack     *)
(* statement of _handle_message that rejected it.                          *)
(***************************************************************************)
DeadLetter(q, m, site) == q \cup {[msg |-> m, site |-> site]}

(***************************************************************************)
(* RabbitMQManager.consume: the connection check and the iterator.         *)
(***************************************************************************)
StartConsume ==
    /\ cons.pc = "init"
    /\ IF is_connected /\ feature_queue_obj
       THEN /\ cons' = [cons EXCEPT !.pc = "idle"]
            /\ UNCHANGED metrics
       ELSE /\ cons' = [cons EXCEPT !.pc = "crashed"]
            /\ metrics' = [metrics EXCEPT !.consume_errors = @ + 1]
    /\ UNCHANGED <<now, rate_limit, connection, channel, feature_queue_obj,
                   dlq_queue_obj, queue, dlq, hd, pub, pubRes,
                   restCalls, foreign, faultsLeft, cbLog, sleepLog, lvars, xvars>>

\* deliveries handed to the consumer and not yet acked or nacked
Outstanding == IF hd.state = "unacked" THEN 1 ELSE 0

\* variant: the body is handed to the callback without parsing
FirstAwaitNoParseCheck(m) ==
    CASE m.kind = "notobj" -> "nack_err"
      [] OTHER -> "callback"

\* _handle_message up to its first await: decode, json.loads, .get, callback
FirstAwait(m) ==
    CASE m.kind = "notjson" -> "nack_parse"
      [] m.kind = "notobj" -> "nack_err"
      [] OTHER -> "callback"

Receive ==
    /\ cons.pc = "idle"
    /\ channel = "open"
    /\ queue # <<>>
    /\ Outstanding < prefetch_count
    /\ LET m == Head(queue)
       IN  /\ queue' = Tail(queue)
           /\ cons' = [cons EXCEPT !.pc = FirstAwait(m)]
           /\ hd' = [NoHd EXCEPT !.msg = m, !.state = "unacked",
                       !.cb = IF FirstAwait(m) = "callback" THEN "running" ELSE "none"]
           /\ cbLog' = IF FirstAwait(m) = "callback"
                       THEN [cbLog EXCEPT ![m.article_id] = Append(@, m.retry_count)]
                       ELSE cbLog
    /\ UNCHANGED <<now, rate_limit, connection, channel, feature_queue_obj,
                   dlq_queue_obj, metrics, dlq, pub, pubRes, restCalls,
                   foreign, faultsLeft, sleepLog, lvars, xvars>>

\* variant: the delivery is acked whatever the callback returned
AfterCallbackAckAlways(result, retry_count) ==
    CASE result = "raise" -> "nack_err"
      [] result = "False" /\ ShouldRetry(retry_count) -> "nack_retry"
      [] OTHER -> "ack"

\* _handle_message after the callback: "if success / else if retry_count < max"
AfterCallback(result, retry_count) ==
    CASE result = "True" -> "ack"
      [] result = "raise" -> "nack_err"
      [] result = "False" /\ ShouldRetry(retry_count) -> "nack_retry"
      [] OTHER -> "nack_term"

CallbackReturn ==
    /\ cons.pc = "callback"
    /\ \E why \in ExtractOutcomes(hd.msg) :
        LET r == process_message_wrapper(why) IN
        /\ hd' = [hd EXCEPT !.cb = r, !.why = why]
        /\ cons' = [cons EXCEPT !.pc = AfterCallback(r, hd.msg.retry_count)]
    /\ UNCHANGED <<now, rate_limit, connection, channel, feature_queue_obj,
                   dlq_queue_obj, metrics, queue, dlq, pub, pubRes,
                   restCalls, foreign, faultsLeft, cbLog, sleepLog, lvars, xvars>>

\* "await message.ack()" and the metric
Ack ==
    /\ cons.pc = "ack"
    /\ \E ok \in Outcomes :
        LET sent == ok /\ channel = "open"
        IN  /\ Spend(ok)
            /\ hd' = IF sent
                     THEN [hd EXCEPT !.state = "acked", !.ev = Append(@, "ack"),
                                     !.done = TRUE]
                     ELSE [hd EXCEPT !.ev = Append(@, "ack_raised")]
            /\ metrics' = IF sent
                          THEN [metrics EXCEPT !.messages_consumed = @ + 1]
                          ELSE metrics
            /\ cons' = [cons EXCEPT !.pc = IF sent THEN "idle" ELSE "nack_err"]
    /\ UNCHANGED <<now, rate_limit, connection, channel, feature_queue_obj,
                   dlq_queue_obj, queue, dlq, pub, pubRes, restCalls,
                   foreign, cbLog, sleepLog, lvars, xvars>>

\* retry branch: "await message.nack(requeue=False)", then the sleep begins
NackRetry ==
    /\ cons.pc = "nack_retry"
    /\ \E ok \in Outcomes :
        LET sent == ok /\ channel = "open"
            d == BackoffDelay(hd.msg.retry_count)
        IN  /\ Spend(ok)
            /\ hd' = IF sent
                     THEN [hd EXCEPT !.state = "nacked", !.ev = Append(@, "nack")]
                     ELSE [hd EXCEPT !.ev = Append(@, "nack_raised")]
            /\ dlq' = IF sent THEN DeadLetter(dlq, hd.msg, "retry") ELSE dlq
            /\ cons' = IF sent
                       THEN [pc |-> "backoff", delay |-> d]
                       ELSE [cons EXCEPT !.pc = "nack_err"]
            /\ sleepLog' = IF sent
                           THEN [sleepLog EXCEPT ![hd.msg.article_id] = Append(@, d)]
                           ELSE sleepLog
    /\ UNCHANGED <<now, rate_limit, connection, channel, feature_queue_obj,
                   dlq_queue_obj, metrics, queue, pub, pubRes,
                   restCalls, foreign, cbLog, lvars, xvars>>

\* the sleep is over: "await self.publish(article_id, retry_count + 1)"
BackoffWake ==
    /\ cons.pc = "backoff"
    /\ hd' = [hd EXCEPT !.slept = @ + cons.delay,
                        !.ev = @ \o (IF is_connected THEN <<"sleep">>
                                     ELSE <<"sleep", "publish_raised">>)]
    /\ cons' = [pc |-> AfterPublishCall, delay |-> 0]
    /\ PublishCall("consumer", hd.msg.article_id, hd.msg.retry_count + 1)
    /\ UNCHANGED <<now, rate_limit, connection, channel, feature_queue_obj,
                   dlq_queue_obj, queue, dlq, restCalls, foreign,
                   faultsLeft, cbLog, sleepLog, lvars, xvars>>

\* terminal branch: "await message.nack(requeue=False)", nothing else
NackTerm ==
    /\ cons.pc = "nack_term"
    /\ \E ok \in Outcomes :
        LET sent == ok /\ channel = "open"
        IN  /\ Spend(ok)
            /\ hd' = IF sent
                     THEN [hd EXCEPT !.state = "nacked", !.ev = Append(@, "nack"),
                                     !.done = TRUE]
                     ELSE [hd EXCEPT !.ev = Append(@, "nack_raised")]
            /\ dlq' = IF sent THEN DeadLetter(dlq, hd.msg, "terminal") ELSE dlq
            /\ cons' = [cons EXCEPT !.pc = IF sent THEN "idle" ELSE "nack_err"]
    /\ UNCHANGED <<now, rate_limit, connection, channel, feature_queue_obj,
                   dlq_queue_obj, metrics, queue, pub, pubRes,
                   restCalls, foreign, cbLog, sleepLog, lvars, xvars>>

\* "except json.JSONDecodeError": the nack is not guarded, its failure
\* leaves _handle_message and ends consume with ConsumerError
NackParse ==
    /\ cons.pc = "nack_parse"
    /\ \E ok \in Outcomes :
        LET sent == ok /\ channel = "open"
        IN  /\ Spend(ok)
            /\ hd' = IF sent
                     THEN [hd EXCEPT !.state = "nacked", !.ev = Append(@, "nack"),
                                     !.done = TRUE]
                     ELSE [hd EXCEPT !.ev = Append(@, "nack_raised")]
            /\ dlq' = IF sent THEN DeadLetter(dlq, hd.msg, "parse") ELSE dlq
            /\ cons' = [cons EXCEPT !.pc = IF sent THEN "idle" ELSE "crashed"]
            /\ metrics' = IF sent THEN metrics
                          ELSE [metrics EXCEPT !.consume_errors = @ + 1]
    /\ UNCHANGED <<now, rate_limit, connection, channel, feature_queue_obj,
                   dlq_queue_obj, queue, pub, pubRes, restCalls,
                   foreign, cbLog, sleepLog, lvars, xvars>>

\* "except Exception": one more nack, its failure swallowed.  A delivery
\* already acked or nacked cannot be nacked again (the client raises).
NackErr ==
    /\ cons.pc = "nack_err"
    /\ \E ok \in Outcomes :
        LET sent == ok /\ channel = "open" /\ hd.state = "unacked"
        IN  /\ Spend(ok)
            /\ hd' = IF sent
                     THEN [hd EXCEPT !.state = "nacked", !.ev = Append(@, "nack"),
                                     !.done = TRUE]
                     ELSE [hd EXCEPT !.ev = Append(@, "nack_raised"), !.done = TRUE]
            /\ dlq' = IF sent THEN DeadLetter(dlq, hd.msg, "error") ELSE dlq
            /\ cons' = [cons EXCEPT !.pc = "idle"]
    /\ UNCHANGED <<now, rate_limit, connection, channel, feature_queue_obj,
                   dlq_queue_obj, metrics, queue, pub, pubRes,
                   restCalls, foreign, cbLog, sleepLog, lvars, xvars>>

(***************************************************************************)
(* main.lifespan shutdown: consumer_task.cancel().  CancelledError is      *)
(* raised at the await the task is suspended in; no "except Exception" of  *)
(* _handle_message, publish or consume catches it.                         *)
(***************************************************************************)
Cancel ==
    /\ cons.pc \in {"idle", "callback", "ack", "nack_retry", "backoff",
                    "publishing", "nack_term", "nack_parse", "nack_err"}
    /\ cons' = [cons EXCEPT !.pc = "cancelled"]
    /\ hd' = [hd EXCEPT !.cancelledAt = cons.pc]
    /\ pub' = [pub EXCEPT !["consumer"] = IdlePub]
    /\ UNCHANGED <<now, rate_limit, connection, channel, feature_queue_obj,
                   dlq_queue_obj, metrics, queue, dlq, pubRes,
                   restCalls, foreign, faultsLeft, cbLog, sleepLog, lvars, xvars>>

\* broker: a delivery left unacknowledged goes back to the head of the
\* queue when its channel is closed or recovered
Redeliver ==
    /\ hd.state = "unacked"
    /\ cons.pc \in {"idle", "cancelled", "crashed"}
    /\ queue' = <<hd.msg>> \o queue
    /\ hd' = [hd EXCEPT !.state = "requeued"]
    /\ UNCHANGED <<now, rate_limit, connection, channel, feature_queue_obj,
                   dlq_queue_obj, metrics, dlq, cons, pub, pubRes,
                   restCalls, foreign, faultsLeft, cbLog, sleepLog, lvars, xvars>>

Next ==
    \/ Connect
    \/ Disconnect
    \/ StartConsume
    \/ \E a \in Articles : RestPublish(a)
    \/ \E m \in ForeignBodies : ProducerSend(m)
    \/ \E p \in Callers : PublishWake(p)
    \/ \E p \in Callers : PublishSend(p)
    \/ Receive
    \/ CallbackReturn
    \/ Ack
    \/ NackRetry
    \/ BackoffWake
    \/ NackTerm
    \/ NackParse
    \/ NackErr
    \/ Cancel
    \/ Redeliver

Spec == Init /\ [][Next]_vars

(***************************************************************************)
(* The retry scenario: the manager is connected and consuming, no broker   *)
(* operation fails and the consume task is not cancelled.                  *)
(***************************************************************************)
InitRetry ==
    /\ InitCommon
    /\ poolFaults = 0
    /\ grok = NoGrok
    /\ rate_limit \in QueueRateLimits
    /\ connection = "open"
    /\ channel = "open"
    /\ feature_queue_obj = TRUE
    /\ dlq_queue_obj = TRUE
    /\ cons = [pc |-> "idle", delay |-> 0]
    /\ faultsLeft = 0
    /\ lim = NoLimiter

NextRetry ==
    \/ \E a \in Articles : RestPublish(a)
    \/ \E m \in ForeignBodies : ProducerSend(m)
    \/ \E p \in Callers : PublishWake(p)
    \/ \E p \in Callers : PublishSend(p)
    \/ Receive
    \/ CallbackReturn
    \/ Ack
    \/ NackRetry
    \/ BackoffWake
    \/ NackTerm
    \/ NackParse
    \/ NackErr

SpecRetry == InitRetry /\ [][NextRetry]_vars

(***************************************************************************)
(* One rate limiter (the publisher's or the enrichment client's) under a   *)
(* single caller that makes its calls one after the other, back to back    *)
(* or after a pause.                                                       *)
(***************************************************************************)
LimWait ==
    IF lim.kind = "grok"
    THEN GrokRateLimitWait(lim.rate_limit, now, lim.last_request_time)
    ELSE RmqRateLimitWait(lim.rate_limit)

LimHits ==
    IF lim.kind = "grok"
    THEN GrokRateLimitHits(lim.rate_limit, now, lim.last_request_time)
    ELSE RmqRateLimitHits(lim.rate_limit)

\* last_request_time when the call returns at t2 (the publisher keeps none)
LimStamp(t2) ==
    IF lim.kind = "grok"
    THEN GrokStamp(lim.rate_limit, lim.last_request_time, t2)
    ELSE lim.last_request_time

InitLimiter ==
    /\ InitCommon
    /\ poolFaults = 0
    /\ grok = NoGrok
    /\ \E k \in Limiters, r \in LimiterRateLimits :
        /\ lim = [NoLimiter EXCEPT !.kind = k, !.rate_limit = r]
        /\ rate_limit = r
    /\ connection = "None"
    /\ channel = "None"
    /\ feature_queue_obj = FALSE
    /\ dlq_queue_obj = FALSE
    /\ cons = [pc |-> "init", delay |-> 0]
    /\ faultsLeft = 0

\* the call up to its await, or all of it when it does not sleep
LimCall ==
    /\ lim.pc = "idle"
    /\ Len(limLog) < MaxCalls
    /\ IF LimWait = 0
       THEN /\ lim' = [lim EXCEPT !.last_request_time = LimStamp(now),
                                  !.rate_limit_hits = @ + LimHits]
            /\ limLog' = Append(limLog, [called |-> now, proceeded |-> now,
                                         hits |-> LimHits])
       ELSE /\ lim' = [lim EXCEPT !.pc = "sleep", !.called = now]
            /\ UNCHANGED limLog
    /\ UNCHANGED <<now, qvars, xvars>>

\* asyncio.sleep is over: count the hit, stamp, return
LimWake ==
    /\ lim.pc = "sleep"
    /\ now' = now + LimWait
    /\ lim' = [lim EXCEPT !.pc = "idle",
                          !.last_request_time = LimStamp(now'),
                          !.rate_limit_hits = @ + LimHits]
    /\ limLog' = Append(limLog, [called |-> lim.called, proceeded |-> now',
                                 hits |-> LimHits])
    /\ UNCHANGED <<qvars, xvars>>

\* the caller does something else for d seconds
LimIdle(d) ==
    /\ lim.pc = "idle"
    /\ lim.idles < MaxIdle
    /\ now' = now + d
    /\ lim' = [lim EXCEPT !.idles = @ + 1]
    /\ UNCHANGED <<limLog, qvars, xvars>>

NextLimiter ==
    \/ LimCall
    \/ LimWake
    \/ \E d \in IdleSteps : LimIdle(d)

SpecLimiter == InitLimiter /\ [][NextLimiter]_vars

(***************************************************************************)
(* The enrichment client shared by two tasks: the consumer callback and    *)
(* the REST handler main.manual_extract both reach extract_features of     *)
(* extractor.grok_client.  A task is suspended at the asyncio.sleep of     *)
(* _apply_rate_limit; what precedes and what follows the sleep, up to the  *)
(* request being sent, runs without suspension.                            *)
(***************************************************************************)
\* the tasks asleep in _apply_rate_limit
Sleepers == {c \in Callers : lim.task[c].pc = "sleep"}

\* extract_features: _apply_rate_limit up to its sleep, or all of it and
\* the request when no wait is due
SharedCall(c) ==
    LET w == GrokRateLimitWait(lim.rate_limit, now, lim.last_request_time) IN
    /\ lim.task[c].pc = "idle"
    /\ lim.task[c].calls < MaxSharedCalls
    /\ IF w = 0
       THEN /\ lim' = [lim EXCEPT !.task[c].calls = @ + 1,
                                  !.last_request_time =
                                      GrokStamp(lim.rate_limit, @, now)]
            /\ grok' = [grok EXCEPT !.requests_sent = @ + 1,
                                    !.sent_at = Append(@, now)]
       ELSE /\ lim' = [lim EXCEPT !.task[c] = [pc |-> "sleep", calls |-> @.calls + 1,
                                               wake |-> now + w]]
            /\ grok' = grok
    /\ UNCHANGED <<now, qvars, limLog, pvars, dc, en, rows, approved, db>>

\* the sleep of the task whose timer is due first is over: the hit is
\* counted, last_request_time is set and the request is sent
SharedWake(c) ==
    /\ c \in Sleepers
    /\ \A o \in Sleepers : lim.task[c].wake <= lim.task[o].wake
    /\ now' = IF lim.task[c].wake > now THEN lim.task[c].wake ELSE now
    /\ lim' = [lim EXCEPT !.task[c].pc = "idle",
                          !.rate_limit_hits = @ + 1,
                          !.last_request_time = GrokStamp(lim.rate_limit, @, now')]
    /\ grok' = [grok EXCEPT !.requests_sent = @ + 1,
                            !.sent_at = Append(@, now')]
    /\ UNCHANGED <<qvars, limLog, pvars, dc, en, rows, approved, db>>

\* d seconds pass in which no timer is due
SharedIdle(d) ==
    /\ lim.idles < MaxIdle
    /\ \A o \in Sleepers : now + d <= lim.task[o].wake
    /\ now' = now + d
    /\ lim' = [lim EXCEPT !.idles = @ + 1]
    /\ UNCHANGED <<qvars, limLog, pvars, dc, grok, en, rows, approved, db>>

InitShared ==
    /\ InitCommon
    /\ poolFaults = 0
    /\ grok = NoGrok
    /\ \E r \in LimiterRateLimits :
          lim = [NoLimiter EXCEPT !.kind = "grok", !.rate_limit = r]
    /\ rate_limit = 4
    /\ connection = "None"
    /\ channel = "None"
    /\ feature_queue_obj = FALSE
    /\ dlq_queue_obj = FALSE
    /\ cons = [pc |-> "init", delay |-> 0]
    /\ faultsLeft = 0

NextShared ==
    \/ \E c \in Callers : SharedCall(c)
    \/ \E c \in Callers : SharedWake(c)
    \/ \E d \in IdleSteps : SharedIdle(d)

SpecShared == InitShared /\ [][NextShared]_vars

(***************************************************************************)
(* VeriHavuzuYoneticisi.baglanti_ac: double-checked locking around         *)
(* asyncpg.create_pool.  The unlocked check, the lock acquisition and the  *)
(* locked check run without suspension when the lock is free; the task is  *)
(* suspended while it waits for the lock and while create_pool runs.       *)
(* asyncio.Lock hands the lock to its waiters in arrival order.            *)
(***************************************************************************)
PoolOutcomes == IF poolFaults > 0 THEN {TRUE, FALSE} ELSE {TRUE}

InCall(t) == dbTask[t].pc \in {"waiting", "creating", "closing"}

\* what a baglanti_ac call returned: the pool, of which manager, from
\* which return statement
Returned(m, id, via) == [mgr |-> m, id |-> id, via |-> via]

\* "async with self._pool_lock" is left: the lock is free again
Release(m) == [pool_lock EXCEPT ![m].holder = "none"]

\* variant: the lock is given back only when create_pool returned
LeaveLockOnReturn(t, m, ok) ==
    IF ok /\ pool_lock[m].holder = t THEN Release(m) ELSE pool_lock

\* the "async with" block is left, by the return or by the re-raise
LeaveLock(t, m, ok) ==
    IF pool_lock[m].holder = t THEN Release(m) ELSE pool_lock

\* variant: no lock, only the unlocked check before create_pool
baglanti_ac_unlocked(t, m) ==
    /\ pools' = pools
    /\ pool' = pool
    /\ pool_lock' = pool_lock
    /\ dbTask' = [dbTask EXCEPT ![t] =
                     IF pool[m] # 0
                     THEN [@ EXCEPT !.pc = "returned", !.mgr = m,
                                    !.rets = Append(@, Returned(m, pool[m], "unlocked check")),
                                    !.calls = @ + 1]
                     ELSE [@ EXCEPT !.pc = "creating", !.mgr = m, !.calls = @ + 1]]

\* the call up to its first suspension
baglanti_ac(t, m) ==
    /\ pools' = pools
    /\ pool' = pool
    /\ IF pool[m] # 0
       THEN /\ dbTask' = [dbTask EXCEPT ![t] =
                            [@ EXCEPT !.pc = "returned", !.mgr = m,
                                      !.rets = Append(@, Returned(m, pool[m], "unlocked check")),
                                    !.calls = @ + 1]]
            /\ pool_lock' = pool_lock
       ELSE IF pool_lock[m].holder = "none" /\ pool_lock[m].waiters = <<>>
       THEN /\ dbTask' = [dbTask EXCEPT ![t] =
                            [@ EXCEPT !.pc = "creating", !.mgr = m, !.calls = @ + 1]]
            /\ pool_lock' = [pool_lock EXCEPT ![m].holder = t]
       ELSE /\ dbTask' = [dbTask EXCEPT ![t] =
                            [@ EXCEPT !.pc = "waiting", !.mgr = m, !.calls = @ + 1]]
            /\ pool_lock' = [pool_lock EXCEPT ![m].waiters = Append(@, t)]

AcCall(t, m) ==
    /\ ~InCall(t)
    /\ dbTask[t].calls < MaxAcCalls
    /\ baglanti_ac(t, m)
    /\ UNCHANGED <<now, qvars, lvars, evars, poolFaults, svc>>

\* a waiter gets the lock: the locked check, then create_pool or return
AcLocked(t) ==
    LET m == dbTask[t].mgr IN
    /\ dbTask[t].pc = "waiting"
    /\ pool_lock[m].holder = "none"
    /\ pool_lock[m].waiters # <<>> /\ Head(pool_lock[m].waiters) = t
    /\ IF pool[m] # 0
       THEN /\ dbTask' = [dbTask EXCEPT ![t].pc = "returned",
                                        ![t].rets = Append(@, Returned(m, pool[m], "locked check"))]
            /\ pool_lock' = [pool_lock EXCEPT ![m].waiters = Tail(@)]
       ELSE /\ dbTask' = [dbTask EXCEPT ![t].pc = "creating"]
            /\ pool_lock' = [pool_lock EXCEPT ![m].waiters = Tail(@),
                                              ![m].holder = t]
    /\ UNCHANGED <<now, qvars, lvars, evars, pool, pools, poolFaults, svc>>

\* create_pool is over: self.pool is set and returned, or the error is
\* raised; either way the lock is released
AcCreated(t) ==
    LET m == dbTask[t].mgr
        id == pools.created + 1
    IN
    /\ dbTask[t].pc = "creating"
    /\ \E ok \in PoolOutcomes :
        /\ poolFaults' = IF ok THEN poolFaults ELSE poolFaults - 1
        /\ IF ok
           THEN /\ pools' = [created |-> id, open |-> pools.open \cup {id},
                            made |-> [pools.made EXCEPT ![m] = @ + 1]]
                /\ pool' = [pool EXCEPT ![m] = id]
                /\ dbTask' = [dbTask EXCEPT ![t].pc = "returned",
                                            ![t].rets = Append(@, Returned(m, id, "created"))]
           ELSE /\ dbTask' = [dbTask EXCEPT ![t].pc = "raised"]
                /\ UNCHANGED <<pool, pools>>
        /\ pool_lock' = LeaveLock(t, m, ok)
    /\ UNCHANGED <<now, qvars, lvars, evars, svc>>

\* tasks open the pools of freshly constructed managers
InitPool ==
    /\ InitCommon
    /\ rate_limit = 4
    /\ connection = "None"
    /\ channel = "None"
    /\ feature_queue_obj = FALSE
    /\ dlq_queue_obj = FALSE
    /\ cons = [pc |-> "init", delay |-> 0]
    /\ faultsLeft = 0
    /\ lim = NoLimiter
    /\ poolFaults = MaxPoolFaults
    /\ grok = NoGrok

NextPool ==
    \/ \E t \in PoolTasks, m \in DbManagers : AcCall(t, m)
    \/ \E t \in PoolTasks : AcLocked(t)
    \/ \E t \in PoolTasks : AcCreated(t)

SpecPool == InitPool /\ [][NextPool]_vars

(***************************************************************************)
(* main.lifespan: startup (db_manager.baglanti_ac, rmq_manager.connect,    *)
(* extractor.connect, the consumer task), the running service, shutdown.   *)
(* extractor is a FeatureExtractor, which constructs a GrokClient and a    *)
(* VeriHavuzuYoneticisi of its own.                                        *)
(***************************************************************************)
\* startup, 1: await db_manager.baglanti_ac()
SvcStart ==
    /\ svc.pc = "new"
    /\ baglanti_ac("lifespan", "main")
    /\ svc' = [svc EXCEPT !.pc = "db"]
    /\ UNCHANGED <<now, qvars, lvars, evars, poolFaults>>

\* startup, 2 and 3: rmq_manager.connect() is over; extractor.connect()
\* creates the HTTP client and awaits its own manager's baglanti_ac()
SvcConnectBroker ==
    /\ svc.pc = "db"
    /\ dbTask["lifespan"].pc = "returned"
    /\ \E ok \in Outcomes, stage \in ConnectStages :
        /\ Spend(ok)
        /\ ConnectHandles(ok, stage)
        /\ IF ok
           THEN /\ baglanti_ac("lifespan", "extractor")
                /\ svc' = [svc EXCEPT !.pc = "extractor", !.client = "open"]
           ELSE /\ svc' = [svc EXCEPT !.pc = "failed"]
                /\ UNCHANGED <<pool, pool_lock, pools, dbTask>>
    /\ UNCHANGED <<now, rate_limit, metrics, queue, dlq, cons, hd, pub,
                   pubRes, restCalls, foreign, cbLog, sleepLog, lvars, evars,
                   poolFaults>>

\* startup, 4: extractor.is_connected = True, the consumer task is created
SvcConsumerStart ==
    /\ svc.pc = "extractor"
    /\ dbTask["lifespan"].pc = "returned"
    /\ svc' = [svc EXCEPT !.pc = "running", !.is_connected = TRUE,
                          !.consumer_task = "running"]
    /\ UNCHANGED <<now, qvars, lvars, evars, pool, pool_lock, pools, dbTask, poolFaults>>

\* a baglanti_ac of the startup raised: lifespan re-raises
SvcStartFailed ==
    /\ svc.pc \in {"db", "extractor"}
    /\ dbTask["lifespan"].pc = "raised"
    /\ svc' = [svc EXCEPT !.pc = "failed"]
    /\ UNCHANGED <<now, qvars, lvars, evars, pool, pool_lock, pools, dbTask, poolFaults>>

\* the consumer task runs: start_consumer -> rmq_manager.consume
SvcConsume ==
    /\ svc.consumer_task = "running"
    /\ StartConsume

\* a REST handler reads through db_manager (main.get_article)
RestGetArticle ==
    /\ svc.pc = "running"
    /\ pool["main"] # 0
    /\ svc' = [svc EXCEPT !.used["rest"] = pool["main"]]
    /\ UNCHANGED <<now, qvars, lvars, evars, pool, pool_lock, pools, dbTask, poolFaults>>

\* the orchestrator reads through its own manager
\* (FeatureExtractor._get_article, _save_features)
OrchestratorFetch ==
    /\ svc.pc = "running"
    /\ svc.is_connected
    /\ pool["extractor"] # 0
    /\ svc' = [svc EXCEPT !.used["orchestrator"] = pool["extractor"]]
    /\ UNCHANGED <<now, qvars, lvars, evars, pool, pool_lock, pools, dbTask, poolFaults>>

\* a REST handler publishes through rmq_manager (main.queue_article)
SvcQueueArticle(a) ==
    /\ svc.pc = "running"
    /\ RestPublish(a)

\* shutdown, 1: consumer_task.cancel(); await consumer_task
SvcShutdown ==
    /\ svc.pc = "running"
    /\ svc' = [svc EXCEPT !.pc = "sd_consumer"]
    /\ UNCHANGED <<now, qvars, lvars, evars, pool, pool_lock, pools, dbTask, poolFaults>>

\* the consumer task ended with CancelledError; shutdown, 2:
\* extractor.disconnect() awaits grok_client.disconnect()
SvcConsumerCancelled ==
    /\ svc.pc = "sd_consumer"
    /\ cons' = [cons EXCEPT !.pc = "cancelled"]
    /\ svc' = [svc EXCEPT !.pc = "sd_grok", !.consumer_task = "cancelled"]
    /\ UNCHANGED <<now, rate_limit, connection, channel, feature_queue_obj,
                   dlq_queue_obj, metrics, queue, dlq, hd, pub, pubRes,
                   restCalls, foreign, faultsLeft, cbLog, sleepLog, lvars, evars,
                   pool, pool_lock, pools, dbTask, poolFaults>>

\* GrokClient.disconnect: aclose() is over (an error is logged and the
\* client kept); extractor.disconnect goes on to db_manager.baglanti_kapat
SvcGrokClosed ==
    /\ svc.pc = "sd_grok"
    /\ \E ok \in PoolOutcomes :
        /\ poolFaults' = IF ok THEN poolFaults ELSE poolFaults - 1
        /\ svc' = [svc EXCEPT !.pc = "sd_pool",
                              !.client = IF ok THEN "None" ELSE @]
    /\ UNCHANGED <<now, qvars, lvars, evars, pool, pool_lock, pools, dbTask>>

\* shutdown, 3 and 4: rmq_manager.baglanti_kapat() raises AttributeError
\* (RabbitMQManager has no such method), which lifespan's "except
\* Exception" logs; db_manager.disconnect() is not reached
ShutdownRest ==
    UNCHANGED <<connection, channel, feature_queue_obj, dlq_queue_obj>>

\* VeriHavuzuYoneticisi.baglanti_kapat of the extractor's manager:
\* pool.close() is over; on an error extractor.disconnect logs it and
\* leaves is_connected and the pool as they were
SvcPoolClosed ==
    LET id == pool["extractor"] IN
    /\ svc.pc = "sd_pool"
    /\ \E ok \in PoolOutcomes :
        /\ poolFaults' = IF ok THEN poolFaults ELSE poolFaults - 1
        /\ IF ok
           THEN /\ pools' = [pools EXCEPT !.open = @ \ {id}]
                /\ pool' = [pool EXCEPT !["extractor"] = 0]
                /\ svc' = [svc EXCEPT !.pc = "down", !.is_connected = FALSE]
           ELSE /\ svc' = [svc EXCEPT !.pc = "down"]
                /\ UNCHANGED <<pool, pools>>
    /\ ShutdownRest
    /\ UNCHANGED <<now, rate_limit, metrics, queue, dlq, cons, hd, pub,
                   pubRes, restCalls, foreign, faultsLeft, cbLog, sleepLog,
                   lvars, evars, pool_lock, dbTask>>

InitService ==
    /\ InitCommon
    /\ rate_limit \in QueueRateLimits
    /\ connection = "None"
    /\ channel = "None"
    /\ feature_queue_obj = FALSE
    /\ dlq_queue_obj = FALSE
    /\ cons = [pc |-> "init", delay |-> 0]
    /\ faultsLeft = MaxFaults
    /\ lim = NoLimiter
    /\ poolFaults = MaxPoolFaults
    /\ grok = NoGrok

NextService ==
    \/ SvcStart
    \/ AcCreated("lifespan")
    \/ SvcConnectBroker
    \/ SvcConsumerStart
    \/ SvcStartFailed
    \/ SvcConsume
    \/ RestGetArticle
    \/ OrchestratorFetch
    \/ \E a \in Articles : SvcQueueArticle(a)
    \/ PublishWake("rest")
    \/ PublishSend("rest")
    \/ SvcShutdown
    \/ SvcConsumerCancelled
    \/ SvcGrokClosed
    \/ SvcPoolClosed

SpecService == InitService /\ [][NextService]_vars

(***************************************************************************)
(* RabbitMQManager.disconnect, await by await: the call up to its first    *)
(* await, the end of channel.close(), the end of connection.close().  A    *)
(* close that raises is logged by the inner "except Exception" and the     *)
(* method goes on.  A handle is "closed" when its object was closed and    *)
(* the attribute still refers to it.                                       *)
(***************************************************************************)
\* variant: no try/except around the close calls, so that a close error
\* reaches the outer "except Exception", which logs it and returns
AfterCloseUnguarded(ok, next) == IF ok THEN next ELSE "logged"

\* where disconnect() goes on after a close call ended
AfterClose(ok, next) == next

\* "Referanslari temizle"
ClearHandles ==
    /\ channel' = "None"
    /\ connection' = "None"
    /\ feature_queue_obj' = FALSE
    /\ dlq_queue_obj' = FALSE

\* disconnect() runs from stage to its next await or to its return;
\* d is its record so far, ch and cn the handles as the close calls left them
DisconnectFrom(stage, d, ch, cn) ==
    IF stage = "chan" /\ ch # "None"
    THEN /\ dc' = [d EXCEPT !.pc = "chan"]
         /\ channel' = ch /\ connection' = cn
         /\ UNCHANGED <<feature_queue_obj, dlq_queue_obj>>
    ELSE IF stage \in {"chan", "conn"} /\ cn # "None"
    THEN /\ dc' = [d EXCEPT !.pc = "conn"]
         /\ channel' = ch /\ connection' = cn
         /\ UNCHANGED <<feature_queue_obj, dlq_queue_obj>>
    ELSE IF stage = "logged"
    THEN /\ dc' = [d EXCEPT !.pc = "idle", !.rets = @ + 1]
         /\ channel' = ch /\ connection' = cn
         /\ UNCHANGED <<feature_queue_obj, dlq_queue_obj>>
    ELSE /\ dc' = [d EXCEPT !.pc = "idle", !.rets = @ + 1]
         /\ ClearHandles

Attempt(what, ok) == [call |-> dc.calls, what |-> what, ok |-> ok]

DisconnectCall ==
    /\ dc.pc = "idle"
    /\ dc.calls < MaxDisconnects
    /\ cons.pc \in {"init", "cancelled", "crashed"}
    /\ DisconnectFrom("chan", [dc EXCEPT !.calls = @ + 1], channel, connection)
    /\ UNCHANGED <<now, rate_limit, metrics, queue, dlq, cons, hd, pub,
                   pubRes, restCalls, foreign, faultsLeft, cbLog, sleepLog,
                   lvars, pvars, grok, en, rows, approved, db>>

DisconnectChannelClosed ==
    /\ dc.pc = "chan"
    /\ \E ok \in Outcomes :
        /\ Spend(ok)
        /\ DisconnectFrom(AfterClose(ok, "conn"),
                          [dc EXCEPT !.log = Append(@, Attempt("channel", ok))],
                          IF ok THEN "closed" ELSE channel, connection)
    /\ UNCHANGED <<now, rate_limit, metrics, queue, dlq, cons, hd, pub,
                   pubRes, restCalls, foreign, cbLog, sleepLog, lvars, pvars, grok, en, rows, approved, db>>

DisconnectConnectionClosed ==
    /\ dc.pc = "conn"
    /\ \E ok \in Outcomes :
        /\ Spend(ok)
        /\ DisconnectFrom(AfterClose(ok, "clear"),
                          [dc EXCEPT !.log = Append(@, Attempt("connection", ok))],
                          channel, IF ok THEN "closed" ELSE connection)
    /\ UNCHANGED <<now, rate_limit, metrics, queue, dlq, cons, hd, pub,
                   pubRes, restCalls, foreign, cbLog, sleepLog, lvars, pvars, grok, en, rows, approved, db>>

NextDisconnect ==
    \/ Connect
    \/ DisconnectCall
    \/ DisconnectChannelClosed
    \/ DisconnectConnectionClosed
    \/ \E a \in Articles : RestPublish(a)
    \/ PublishWake("rest")
    \/ PublishSend("rest")

SpecDisconnect == Init /\ [][NextDisconnect]_vars

(***************************************************************************)
(* The enrichment response record.  A JSON value is a pair of its Python   *)
(* type and its content; a float is held in hundredths.  A record is a     *)
(* function from the field names it has to their values.                   *)
(***************************************************************************)
TV(t, v) == [t |-> t, v |-> v]

required_fields ==
    {"unlu_isimler", "firmalar", "ulkeler", "kurumlar", "is_makroekonomi",
     "is_mikroekonomi", "alt_kategori", "guven_skoru_makro", "olay_tipi",
     "etki_yonu", "etkilenen_varlik_sinifi", "piyasa_etki_tahmini",
     "etki_degeri_confidence", "duygu", "duygu_skoru", "ton", "aciliyet",
     "surpriz_mi", "surpriz_confidence", "etki_suresi", "gelecege_yonelik_mi",
     "gelecek_confidence", "sayisal_degerler", "beklenti_karsilama"}

array_fields == {"unlu_isimler", "firmalar", "ulkeler", "kurumlar",
                 "etkilenen_varlik_sinifi"}
boolean_fields == {"is_makroekonomi", "is_mikroekonomi", "surpriz_mi",
                   "gelecege_yonelik_mi"}
float_fields == {"guven_skoru_makro", "duygu_skoru", "etki_degeri_confidence",
                 "surpriz_confidence", "gelecek_confidence"}
string_fields == {"olay_tipi", "etki_yonu", "duygu", "ton", "aciliyet",
                  "etki_suresi", "beklenti_karsilama"}
dict_fields == {"piyasa_etki_tahmini", "sayisal_degerler"}

\* allowed_etki_yonu, allowed_duygu, allowed_ton, allowed_aciliyet,
\* allowed_etki_suresi, allowed_beklenti
allowed ==
    [etki_yonu |-> {"pozitif", "negatif", "notr"},
     duygu |-> {"pozitif", "negatif", "notr_pozitif", "notr_negatif", "notr"},
     ton |-> {"resmi", "teknik", "populer", "belirsiz"},
     aciliyet |-> {"yuksek", "orta", "dusuk"},
     etki_suresi |-> {"kisa_vadeli", "uzun_vadeli", "belirsiz"},
     beklenti_karsilama |-> {"ustunde", "altinda", "beklendigi_gibi", "belirsiz"}]

allowed_assets == {"TL", "BIST100", "USDTRY", "EURTRY", "ALTIN", "BRENT", "tahvil"}
allowed_directions == {"guclenme", "zayiflama", "stabil", "pozitif", "negatif"}

\* the prompt's olay_tipi values, one per alt_kategori 0..13
olay_tipi_values ==
    {"faiz_degisikligi", "enflasyon_raporu", "buyume_verisi", "butce_aciklama",
     "dis_ticaret_verisi", "istihdam_raporu", "bankacilik_duzenleme",
     "piyasa_hareketi", "kur_rezerv_degisim", "emtia_fiyat_degisim",
     "sektor_verisi", "sirket_haberi", "regulasyon_degisikligi", "diger"}

\* isinstance(x, bool), isinstance(x, int), isinstance(x, (int, float)):
\* a Python bool is an int
IsInt(x) == x.t \in {"int", "bool"}
IsNumber(x) == x.t \in {"int", "float", "bool"}

\* 0.0 <= value <= 1.0
InUnit(x) ==
    IF x.t = "float" THEN 0 <= x.v /\ x.v <= 100
    ELSE IF x.t = "int" THEN 0 <= x.v /\ x.v <= 1
    ELSE TRUE

\* 0 <= alt_kategori <= 13
InCategories(x) == IF x.t = "int" THEN 0 <= x.v /\ x.v <= 13 ELSE TRUE

KurumOk(k) ==
    /\ k.t = "dict"
    /\ {"ad", "id"} \subseteq DOMAIN k.v
    /\ k.v["ad"].t = "str"
    /\ IsInt(k.v["id"])

\* x in list-of-strings, for a JSON value x
Among(x, S) == x.t = "str" /\ x.v \in S

\* GrokClient._validate_features: TRUE when it returns, FALSE when it
\* raises GrokParseError
validate_features(features) ==
    /\ required_fields \subseteq DOMAIN features
    /\ \A f \in array_fields : features[f].t = "list"
    /\ \A f \in boolean_fields : features[f].t = "bool"
    /\ \A f \in float_fields : IsNumber(features[f])
    /\ IsInt(features["alt_kategori"])
    /\ \A f \in string_fields : features[f].t = "str"
    /\ \A f \in dict_fields : features[f].t = "dict"
    /\ \A f \in float_fields : InUnit(features[f])
    /\ InCategories(features["alt_kategori"])
    /\ \A f \in DOMAIN allowed : features[f].v \in allowed[f]
    /\ \A i \in 1..Len(features["kurumlar"].v) : KurumOk(features["kurumlar"].v[i])
    /\ \A i \in 1..Len(features["etkilenen_varlik_sinifi"].v) :
          Among(features["etkilenen_varlik_sinifi"].v[i], allowed_assets)
    /\ DOMAIN features["piyasa_etki_tahmini"].v \subseteq allowed_assets
    /\ \A k \in DOMAIN features["piyasa_etki_tahmini"].v :
          Among(features["piyasa_etki_tahmini"].v[k], allowed_directions)

\* a record that follows the prompt
WellFormed ==
    [unlu_isimler |-> TV("list", <<TV("str", "x")>>),
     firmalar |-> TV("list", <<>>),
     ulkeler |-> TV("list", <<TV("str", "x")>>),
     kurumlar |-> TV("list", <<TV("dict", [ad |-> TV("str", "x"), id |-> TV("int", 1)])>>),
     is_makroekonomi |-> TV("bool", TRUE),
     is_mikroekonomi |-> TV("bool", FALSE),
     alt_kategori |-> TV("int", 0),
     guven_skoru_makro |-> TV("float", 90),
     olay_tipi |-> TV("str", "faiz_degisikligi"),
     etki_yonu |-> TV("str", "notr"),
     etkilenen_varlik_sinifi |-> TV("list", <<TV("str", "TL"), TV("str", "tahvil")>>),
     piyasa_etki_tahmini |-> TV("dict", [TL |-> TV("str", "stabil")]),
     etki_degeri_confidence |-> TV("float", 100),
     duygu |-> TV("str", "notr"),
     duygu_skoru |-> TV("float", 0),
     ton |-> TV("str", "resmi"),
     aciliyet |-> TV("str", "orta"),
     surpriz_mi |-> TV("bool", FALSE),
     surpriz_confidence |-> TV("float", 50),
     etki_suresi |-> TV("str", "kisa_vadeli"),
     gelecege_yonelik_mi |-> TV("bool", FALSE),
     gelecek_confidence |-> TV("int", 1),
     sayisal_degerler |-> TV("dict", [faiz |-> TV("int", 50)]),
     beklenti_karsilama |-> TV("str", "beklendigi_gibi")]

\* the records the enrichment API may answer with: the well-formed one, or
\* it with one thing done to one field
Descriptors ==
    {<<"valid", "">>}
    \cup {<<"missing", f>> : f \in required_fields}
    \cup {<<"wrong_type", f>> : f \in required_fields}
    \cup {<<k, f>> : k \in {"above", "below", "bool_for_number"},
                     f \in float_fields \cup {"alt_kategori"}}
    \cup {<<"off_vocabulary", f>> : f \in string_fields}
    \cup {<<k, "kurumlar">> : k \in {"kurum_not_dict", "kurum_no_id",
                                     "kurum_ad_not_str", "kurum_id_not_int"}}
    \cup {<<"bad_asset", f>> : f \in {"etkilenen_varlik_sinifi", "piyasa_etki_tahmini"}}
    \cup {<<"bad_direction", "piyasa_etki_tahmini">>}

WrongType(f) ==
    IF f \in string_fields \cup boolean_fields THEN TV("int", 1)
    ELSE IF f = "alt_kategori" THEN TV("float", 300)
    ELSE TV("str", "x")

Changed(d) ==
    LET k == d[1]
        f == d[2]
    IN  IF k = "wrong_type" THEN WrongType(f)
        ELSE IF k = "above" THEN (IF f = "alt_kategori" THEN TV("int", 14) ELSE TV("float", 101))
        ELSE IF k = "below" THEN (IF f = "alt_kategori" THEN TV("int", -1) ELSE TV("float", -1))
        ELSE IF k = "bool_for_number" THEN TV("bool", TRUE)
        ELSE IF k = "off_vocabulary" THEN TV("str", "xyz")
        ELSE IF k = "kurum_not_dict" THEN TV("list", <<TV("str", "x")>>)
        ELSE IF k = "kurum_no_id" THEN TV("list", <<TV("dict", [ad |-> TV("str", "x")])>>)
        ELSE IF k = "kurum_ad_not_str" THEN
             TV("list", <<TV("dict", [ad |-> TV("int", 1), id |-> TV("int", 1)])>>)
        ELSE IF k = "kurum_id_not_int" THEN
             TV("list", <<TV("dict", [ad |-> TV("str", "x"), id |-> TV("str", "1")])>>)
        ELSE IF k = "bad_asset" /\ f = "etkilenen_varlik_sinifi" THEN
             TV("list", <<TV("str", "TL"), TV("str", "BTC")>>)
        ELSE IF k = "bad_asset" THEN TV("dict", [BTC |-> TV("str", "stabil")])
        ELSE TV("dict", [TL |-> TV("str", "yukari")])

\* the JSON object a descriptor stands for
Build(d) ==
    IF d[1] = "valid" THEN WellFormed
    ELSE IF d[1] = "missing"
    THEN [f \in required_fields \ {d[2]} |-> WellFormed[f]]
    ELSE [WellFormed EXCEPT ![d[2]] = Changed(d)]

(***************************************************************************)
(* GrokClient._send_request: what one send attempt gets and what it        *)
(* raises.  transport is "ok", "timeout" or "connect_error"; body is what  *)
(* the 200 response holds.                                                 *)
(***************************************************************************)
Response(transport, status, body, rec) ==
    [transport |-> transport, status |-> status, body |-> body, rec |-> rec]


Responses ==
    {Response(t, 0, "none", NoRecord) : t \in {"timeout", "connect_error"}}
    \cup {Response("ok", c, "none", NoRecord) : c \in {401, 404, 429, 500, 503}}
    \cup {Response("ok", 200, b, NoRecord) : b \in {"not_json", "no_choices", "bad_json"}}
    \cup {Response("ok", 200, b, d) : b \in {"json", "fenced"}, d \in Descriptors}

\* the exception _send_request raises, "none" when it returns the features
send_request(r) ==
    IF r.transport = "timeout" THEN "GrokTimeoutError"
    ELSE IF r.transport = "connect_error" THEN "GrokConnectionError"
    ELSE IF r.status = 401 THEN "GrokAuthError"
    ELSE IF r.status = 429 THEN "GrokRateLimitError"
    ELSE IF r.status >= 500 THEN "GrokAPIError"
    ELSE IF r.status # 200 THEN "GrokAPIError"
    ELSE IF r.body = "not_json" THEN "GrokAPIError"
    ELSE IF r.body \in {"no_choices", "bad_json"} THEN "GrokParseError"
    ELSE IF validate_features(Build(r.rec)) THEN "none"
    ELSE "GrokParseError"

\* metrics["parse_errors"] += 1: the first json.loads of the content failed
ParseErrors(r) ==
    IF r.transport = "ok" /\ r.status = 200 /\ r.body \in {"bad_json", "fenced"}
    THEN 1 ELSE 0

(***************************************************************************)
(* GrokClient.extract_features: the retry loop.                            *)
(***************************************************************************)
\* variant: the backoff does not grow
GrokBackoffFlat(attempt) == 2

\* wait_time = 2 ** attempt
GrokBackoff(attempt) == Pow2(attempt)

\* variant: parse and validation errors are retried as well
GrokRetryableParse(e, r) ==
    e \in {"GrokTimeoutError", "GrokConnectionError", "GrokParseError"}

\* except (GrokTimeoutError, GrokConnectionError)
GrokRetryable(e, r) == e \in {"GrokTimeoutError", "GrokConnectionError"}

\* the except clauses that count requests_failed
GrokCounted(e) ==
    e \in {"GrokTimeoutError", "GrokConnectionError", "GrokAuthError",
           "GrokParseError", "GrokAPIError"}

\* variant: without the last clause, "except Exception"
extract_and_save_except_grok(raised) ==
    IF raised \in {"GrokAuthError", "GrokParseError", "GrokConnectionError",
                   "GrokTimeoutError", "GrokRateLimitError", "GrokAPIError"}
    THEN "False"
    ELSE "raise"

\* the except clauses of extract_and_save: GrokAuthError, GrokParseError,
\* (GrokConnectionError, GrokAPIError) and Exception each return False
extract_and_save_except(raised) == "False"

\* extract_and_save is over: its return statement, or the except clause
\* of what was raised inside its try
EnReturn(e, raised, out) ==
    [e EXCEPT !.pc = "idle", !.raised = raised,
              !.out = IF raised = "none" THEN out
                      ELSE extract_and_save_except(raised)]

\* the retry loop is entered: the first _send_request is under way, or
\* range(1, max_retries + 1) is empty, extract_features returns None and
\* _save_features is called with it
EnLoop(e, t) ==
    IF grok.max_retries >= 1
    THEN /\ en' = [e EXCEPT !.pc = "sending", !.attempt = 1]
         /\ grok' = [grok EXCEPT !.requests_sent = @ + 1,
                                 !.sent_at = Append(@, t)]
    ELSE /\ en' = [e EXCEPT !.pc = "saving", !.steps = Append(@, "persist")]
         /\ grok' = grok

\* extract_and_save up to its first await
EnCall(a) ==
    /\ en.pc = "idle"
    /\ en.calls < MaxExtractCalls
    /\ en' = IF svc.is_connected
             THEN [NoEnrich EXCEPT !.calls = en.calls + 1, !.article_id = a,
                                   !.start_time = now,
                                   !.steps = <<"fetch">>,
                                   !.pc = "get_article"]
             ELSE [NoEnrich EXCEPT !.calls = en.calls + 1, !.article_id = a,
                                   !.start_time = now,
                                   !.out = "False"]
    /\ UNCHANGED <<now, qvars, lvars, pvars, dc, grok, rows, approved, db>>

\* what the store does on the fetch by id: the row, with or without
\* content, no row, or an error (asyncpg raises)
FetchOutcomes(a) ==
    (IF a \in NoRow THEN {"no_row"} ELSE {"row", "row_no_content"})
    \cup (IF poolFaults > 0 THEN {"error"} ELSE {})

\* VeriHavuzuYoneticisi.haber_id_ile_getir: one attempt; its "except
\* Exception" logs and falls off the end of the method, which returns None
haber_id_ile_getir(fetched) ==
    IF fetched \in {"no_row", "error"} THEN "None" ELSE fetched

\* variant: the fetched article is never taken as missing
ArticleMissingNever(article) == FALSE

\* extract_and_save: "if article is None"
ArticleMissing(article) == article = "None"

\* _get_article is over; _extract_features checks the content and calls
\* extract_features, which applies the rate limit
EnArticle ==
    /\ en.pc = "get_article"
    /\ \E fetched \in FetchOutcomes(en.article_id) :
        LET article == haber_id_ile_getir(fetched)
            got == [en EXCEPT !.fetched = fetched]
            called == [got EXCEPT !.steps = Append(@, "enrich")]
        IN  /\ poolFaults' = IF fetched = "error" THEN poolFaults - 1 ELSE poolFaults
            /\ IF ArticleMissing(article)
               THEN /\ en' = EnReturn(got, "none", "False")
                    /\ UNCHANGED <<lim, grok>>
               ELSE IF article \in {"None", "row_no_content"}
               THEN /\ en' = EnReturn(got, "ValueError", "False")
                    /\ UNCHANGED <<lim, grok>>
               ELSE IF GrokRateLimitWait(lim.rate_limit, now, lim.last_request_time) > 0
               THEN /\ en' = [called EXCEPT !.pc = "rate_sleep"]
                    /\ UNCHANGED <<lim, grok>>
               ELSE /\ lim' = [lim EXCEPT !.last_request_time =
                                  GrokStamp(lim.rate_limit, @, now)]
                    /\ EnLoop(called, now)
    /\ UNCHANGED <<now, qvars, limLog, pool, pool_lock, pools, dbTask, svc,
                   dc, rows, approved, db>>

\* the rate limiter's sleep is over
EnRateWake ==
    /\ en.pc = "rate_sleep"
    /\ now' = now + GrokRateLimitWait(lim.rate_limit, now, lim.last_request_time)
    /\ lim' = [lim EXCEPT !.rate_limit_hits = @ + 1,
                          !.last_request_time = GrokStamp(lim.rate_limit, @, now')]
    /\ EnLoop(en, now')
    /\ UNCHANGED <<qvars, limLog, pvars, dc, rows, approved, db>>

\* response_data["usage"]["total_tokens"] of a reply; 0 when the reply has
\* no "usage" entry or reports no token
Usages == {0, 7}

\* metrics["total_tokens_used"] += tokens_used: reached when the status
\* is 200 and response.json() returned
TokensUsed(r, u) ==
    IF r.transport = "ok" /\ r.status = 200 /\ r.body # "not_json"
    THEN u ELSE 0

\* a send attempt is over with reply r, whose usage entry is u: success,
\* a retry after the backoff, or the error goes to extract_and_save, whose
\* except clauses all return False
EnResponseOf(r, u) ==
    /\ en.pc = "sending"
    /\ LET e == send_request(r)
           seen == [en EXCEPT !.resp = Append(@, r), !.rec = r.rec]
       IN  /\ grok' = [grok EXCEPT
                          !.total_tokens_used = @ + TokensUsed(r, u),
                          !.parse_errors = @ + ParseErrors(r),
                          !.requests_success = IF e = "none" THEN @ + 1 ELSE @,
                          !.requests_failed = IF GrokCounted(e) THEN @ + 1 ELSE @]
           /\ en' = IF e = "none"
                    THEN [seen EXCEPT !.pc = "saving",
                                      !.steps = Append(@, "persist")]
                    ELSE IF GrokRetryable(e, r) /\ en.attempt < grok.max_retries
                    THEN [seen EXCEPT !.pc = "backoff",
                                      !.waits = Append(@, GrokBackoff(en.attempt))]
                    ELSE EnReturn(seen, e, "False")
    /\ UNCHANGED <<now, qvars, lvars, pvars, dc, rows, approved, db>>

\* the replies of this scenario carry no usage entry
EnResponse == \E r \in Responses : EnResponseOf(r, 0)

\* the backoff sleep is over: the next attempt's _send_request
EnBackoffWake ==
    /\ en.pc = "backoff"
    /\ now' = now + en.waits[Len(en.waits)]
    /\ en' = [en EXCEPT !.pc = "sending", !.attempt = @ + 1]
    /\ grok' = [grok EXCEPT !.requests_sent = @ + 1,
                            !.sent_at = Append(@, now + en.waits[Len(en.waits)])]
    /\ UNCHANGED <<qvars, lvars, pvars, dc, rows, approved, db>>

\* the processing_time_ms argument of _save_features: extract_and_save
\* passes start_time, its time.time() reading
ProcessingTime(start_time, t) == start_time

\* variant: one row per article, replaced by a later run
UpsertRow(rs, row) == {r \in rs : r.article_id # row.article_id} \cup {row}

\* _save_features: INSERT INTO extracted_features ... VALUES (...), one new
\* row (call stands for the serial id that tells two rows apart)
InsertRow(rs, row) == rs \cup {row}

\* variant: the row of a statement that raised is stored all the same
FailedInsertStored(rs, row) == rs \cup {row}

\* _save_features: conn.execute raised; the one INSERT statement stored
\* nothing
FailedInsert(rs, row) == rs

\* _save_features: the INSERT is over or raised; with features None (no
\* send attempt was made) features["unlu_isimler"] raises TypeError and
\* nothing is executed
EnSaved ==
    /\ en.pc = "saving"
    /\ \E ok \in IF en.rec = NoRecord THEN {FALSE} ELSE PoolOutcomes :
        /\ poolFaults' = IF ok \/ en.rec = NoRecord THEN poolFaults ELSE poolFaults - 1
        /\ LET row == [article_id |-> en.article_id, rec |-> en.rec,
                       call |-> en.calls,
                       model_version |-> "grok-beta",
                       processing_time_ms |-> ProcessingTime(en.start_time, now),
                       started |-> en.start_time,
                       extraction_date |-> now]
           IN  rows' = IF ok THEN InsertRow(rows, row)
                       ELSE IF en.rec = NoRecord THEN rows
                       ELSE FailedInsert(rows, row)
        /\ en' = EnReturn(en, IF ok THEN "none"
                                  ELSE IF en.rec = NoRecord THEN "TypeError"
                                  ELSE "PostgresError",
                           "True")
    /\ UNCHANGED <<now, qvars, lvars, pool, pool_lock, pools, dbTask, svc, dc, grok,
                   approved, db>>

InitEnrich ==
    /\ InitCommon
    /\ rate_limit = 4
    /\ connection = "None"
    /\ channel = "None"
    /\ feature_queue_obj = FALSE
    /\ dlq_queue_obj = FALSE
    /\ cons = [pc |-> "init", delay |-> 0]
    /\ faultsLeft = 0
    /\ poolFaults = MaxPoolFaults
    \* MAX_RETRY_COUNT is 0, 1 or 3, GROK_RATE_LIMIT_REQUESTS 0 or 4
    /\ \E m \in {0, 1, 3} : grok = [NoGrok EXCEPT !.max_retries = m]
    /\ \E r \in {0, 4} :
          lim = [NoLimiter EXCEPT !.kind = "grok", !.rate_limit = r]

NextEnrich ==
    \/ SvcStart
    \/ AcCreated("lifespan")
    \/ SvcConnectBroker
    \/ SvcConsumerStart
    \/ SvcStartFailed
    \/ \E a \in Articles : EnCall(a)
    \/ EnArticle
    \/ EnRateWake
    \/ EnResponse
    \/ EnBackoffWake
    \/ EnSaved

SpecEnrich == InitEnrich /\ [][NextEnrich]_vars

(***************************************************************************)
(* Properties.                                                             *)
(***************************************************************************)
IsPrefix(s, t) == Len(s) <= Len(t) /\ \A i \in 1..Len(s) : s[i] = t[i]

Increasing(s) == \A i \in 1..(Len(s) - 1) : s[i] < s[i + 1]

Last(s) == s[Len(s)]

Has(s, x) == \E i \in 1..Len(s) : s[i] = x

\* the delivery in hand failed in the callback with retries left / none left
RetryCase == hd.cb = "False" /\ hd.msg.retry_count < max_retries
TerminalCase == hd.cb = "False" /\ hd.msg.retry_count >= max_retries

Republished == MessageBody(hd.msg.article_id, hd.msg.retry_count + 1)

InDlq(m) == \E e \in dlq : e.msg = m

\* what the retry branch does when nothing raises
RetryRun == {<<"nack", "sleep", "publish">>, <<"nack", "sleep", "sleep", "publish">>}

\* C1 as claimed: every handling of a delivery whose callback returned
\* failure with retry_count < max_retries nacks, then waits at least
\* retry_delay * 2^retry_count, then publishes exactly one message for the
\* same article_id with retry_count + 1 (never zero, never more than one).
C1_Claim ==
    (RetryCase /\ hd.msg.kind = "obj" /\ hd.done) =>
        /\ hd.ev \in RetryRun
        /\ hd.slept >= retry_delay * (2 ^ hd.msg.retry_count)
        /\ hd.pubs = <<Republished>>

\* C2: a delivery whose callback returned failure with retry_count >=
\* max_retries is nacked without requeue and nothing is published or slept
\* for it; once the broker has the nack the delivery is in the dead-letter
\* queue and not back in the primary queue.
C2_TerminalNoRepublish ==
    TerminalCase =>
        /\ hd.pubs = <<>>
        /\ hd.slept = 0
        /\ ~Has(hd.ev, "sleep") /\ ~Has(hd.ev, "publish") /\ ~Has(hd.ev, "publish_raised")
        /\ cons.pc \notin {"nack_retry", "backoff", "publishing", "ack"}
        /\ pub["consumer"].pc = "idle"
        /\ hd.ev # <<>> => hd.ev[1] \in {"nack", "nack_raised"}
        /\ hd.done => Last(hd.ev) \in {"nack", "nack_raised"}
        /\ hd.state = "nacked" => InDlq(hd.msg)
        /\ hd.state # "acked"

C2_Witness ==
    /\ TerminalCase /\ hd.done
    /\ hd.ev = <<"nack">>
    /\ hd.msg.retry_count = max_retries
    /\ [msg |-> hd.msg, site |-> "terminal"] \in dlq

\* C3: a delivery whose body is not JSON is nacked without requeue in its
\* first handling: the callback is not invoked for it, nothing is slept and
\* nothing is republished; once the broker has the nack it is in the
\* dead-letter queue.
C3_ParseErrorDeadLettered ==
    hd.msg.kind = "notjson" =>
        /\ hd.cb = "none"
        /\ hd.slept = 0
        /\ hd.pubs = <<>>
        /\ hd.ev \in {<<>>, <<"nack">>, <<"nack_raised">>}
        /\ cons.pc \in {"nack_parse", "idle", "crashed", "cancelled"}
        /\ pub["consumer"].pc = "idle"
        /\ hd.ev = <<"nack">> =>
              /\ hd.state = "nacked"
              /\ [msg |-> hd.msg, site |-> "parse"] \in dlq
        /\ cons.pc = "idle" => hd.ev = <<"nack">>

C3_Witness ==
    /\ hd.msg.kind = "notjson"
    /\ hd.done
    /\ [msg |-> hd.msg, site |-> "parse"] \in dlq
    /\ cbLog = [a \in Articles \cup {0} |-> <<>>]

\* C5: a delivery is acked only after its callback returned success.
C5_AckOnlyAfterSuccess ==
    /\ (hd.state = "acked" \/ Has(hd.ev, "ack") \/ Has(hd.ev, "ack_raised")
        \/ cons.pc = "ack") => hd.cb = "True"
    /\ hd.cb \in {"none", "running", "False", "raise"} => hd.state # "acked"

C5_Witness == hd.state = "acked" /\ hd.cb = "True" /\ metrics.messages_consumed = 1

\* C6 as claimed: a delivery that failed with retry_count < max_retries does
\* not end up in the dead-letter queue (nothing the retry branch rejected
\* is there).
C6_Claim ==
    /\ \A e \in dlq : e.msg.kind = "obj" => e.site # "retry"
    /\ (RetryCase /\ hd.msg.kind = "obj" /\ hd.state = "nacked") => ~InDlq(hd.msg)

\* C7 as claimed: when the consume task has been cancelled, the work item
\* it had in hand is still unacknowledged (or was requeued by the broker),
\* or its handling was completed.
C7_Claim ==
    cons.pc = "cancelled" =>
        \/ hd.msg.kind # "obj"
        \/ hd.state \in {"unacked", "requeued"}
        \/ hd.done

Quiet ==
    /\ cons.pc = "idle"
    /\ queue = <<>>
    /\ \A p \in Callers : pub[p].pc = "idle"

FullCycle == [i \in 1..(max_retries + 1) |-> i - 1]

\* C4 as claimed: an article without a row whose one publish with
\* retry_count 0 returned True is handed to the callback with retry_count
\* 0, 1, ..., max_retries in that order; once the consumer is idle with
\* nothing queued, nothing awaiting redelivery and no publish under way, it
\* has been handed over exactly max_retries + 1 times and its last
\* delivery is in the dead-letter queue.
C4_Claim ==
    \A a \in NoRow :
        (restCalls[a] = 1 /\ RestTotal = 1 /\ pubRes["rest"].result = "True") =>
            /\ IsPrefix(cbLog[a], FullCycle)
            /\ (Quiet /\ Outstanding = 0) =>
                  /\ cbLog[a] = FullCycle
                  /\ InDlq(MessageBody(a, max_retries))

\* C4 in runs where no broker operation fails and the consumer is not
\* cancelled (SpecRetry):
\* an article without a row, published once with retry_count 0, is
\* handed to the callback with retry_count 0, 1, ..., max_retries in that
\* order and never more often, each backoff longer than the one before;
\* when nothing is left to do it has been handed over max_retries + 1
\* times, its last delivery is in the dead-letter queue and (no other
\* article having been queued) max_retries + 1 messages were published.
C4_RetryCycle ==
    \A a \in NoRow :
        restCalls[a] = 1 =>
            /\ IsPrefix(cbLog[a], FullCycle)
            /\ Increasing(sleepLog[a])
            /\ Len(sleepLog[a]) <= max_retries
            /\ Len(sleepLog[a]) \in {Len(cbLog[a]) - 1, Len(cbLog[a])}
            /\ Quiet =>
                  /\ cbLog[a] = FullCycle
                  /\ Len(sleepLog[a]) = max_retries
                  /\ [msg |-> MessageBody(a, max_retries), site |-> "terminal"] \in dlq
                  /\ (RestTotal = 1 /\ foreign = 0) =>
                        metrics.messages_published = max_retries + 1

C4_Witness ==
    /\ Quiet
    /\ restCalls[1] = 1
    /\ cbLog[1] = FullCycle
    /\ Len(sleepLog[1]) = max_retries
    /\ hd.msg = MessageBody(1, max_retries) /\ hd.state = "nacked"

\* C9 as claimed, for every call after the first on a limiter with a
\* limit: made at least the minimum interval after the previous call was
\* let through, it is let through at once and counts no hit; made earlier,
\* it waits for the remainder of the interval and counts one hit.
C9_Claim ==
    lim.rate_limit # 0 =>
        \A j \in 2..Len(limLog) :
            LET elapsed == limLog[j].called - limLog[j - 1].proceeded
                interval == 60 \div lim.rate_limit
            IN  IF elapsed >= interval
                THEN limLog[j].proceeded = limLog[j].called /\ limLog[j].hits = 0
                ELSE /\ limLog[j].proceeded - limLog[j].called = interval - elapsed
                     /\ limLog[j].hits = 1

\* C10: with a limit of 4 per 60 s, consecutive calls on one limiter are
\* let through at least 15 s apart, and the fifth at least 45 s after the
\* first.
C10_FiveCallsSpacing ==
    lim.rate_limit = 4 =>
        /\ \A j \in 2..Len(limLog) :
              limLog[j].proceeded - limLog[j - 1].proceeded >= 15
        /\ Len(limLog) >= 5 => limLog[5].proceeded - limLog[1].proceeded >= 45

\* five calls made back to back on the enrichment client's limiter
C10_Witness ==
    /\ lim.kind = "grok"
    /\ lim.rate_limit = 4
    /\ Len(limLog) = 5
    /\ \A j \in 2..5 : limLog[j].called = limLog[j - 1].proceeded
    /\ limLog[5].proceeded - limLog[1].proceeded >= 45

\* C11: on a limiter whose rate_limit is 0 no call ever waits: the caller
\* is never suspended in it, every call is let through at the clock
\* reading it was made at, rate_limit_hits stays 0 and last_request_time
\* keeps the value it was constructed with, however many calls were made.
C11_ZeroLimitNoThrottle ==
    lim.rate_limit = 0 =>
        /\ lim.pc = "idle"
        /\ lim.rate_limit_hits = 0
        /\ lim.last_request_time = NoLimiter.last_request_time
        /\ \A j \in 1..Len(limLog) :
              limLog[j].proceeded = limLog[j].called /\ limLog[j].hits = 0

\* the enrichment client's limiter, limit 0, after MaxCalls calls with a pause
C11_Witness ==
    /\ lim.kind = "grok"
    /\ lim.rate_limit = 0
    /\ Len(limLog) = MaxCalls
    /\ lim.idles > 0
    /\ limLog[MaxCalls].called > limLog[1].called

\* C12: on each manager object at most one pool is ever created by
\* baglanti_ac calls, however they interleave at create_pool; every call
\* that returned returned the pool that is the manager's self.pool, and
\* once a call on a manager has returned exactly one pool was created for it.
C12_OnePoolPerManager ==
    /\ \A m \in DbManagers :
          /\ pools.made[m] <= 1
          /\ pools.made[m] = 1 <=> pool[m] # 0
          /\ pool[m] # 0 => pool[m] \in pools.open
    /\ \A t \in PoolTasks : \A i \in 1..Len(dbTask[t].rets) :
          LET r == dbTask[t].rets[i] IN
          /\ r.id # 0
          /\ r.id = pool[r.mgr]
          /\ pools.made[r.mgr] = 1
    /\ \A t \in PoolTasks :
          dbTask[t].pc = "creating" => pool_lock[dbTask[t].mgr].holder = t

\* two tasks called baglanti_ac on the empty main manager; one created the
\* pool while the other waited for the lock, and both returned that pool
C12_Witness ==
    /\ \E id \in 1..2 :
          /\ dbTask["t1"].rets = <<Returned("main", id, "created")>>
          /\ dbTask["t2"].rets = <<Returned("main", id, "locked check")>>
          /\ pool["main"] = id
    /\ pools.made["main"] = 1

\* C13 as claimed: over the service's lifetime one storage pool is created
\* in the process, and the REST layer and the orchestrator read through
\* the same pool.
C13_Claim ==
    /\ pools.created <= 1
    /\ (svc.used["rest"] # 0 /\ svc.used["orchestrator"] # 0) =>
          svc.used["rest"] = svc.used["orchestrator"]

\* C14 as claimed: when shutdown has finished the enrichment HTTP client
\* is closed, the broker channel and connection are closed and no storage
\* pool is open.
C14_Claim ==
    svc.pc = "down" =>
        /\ svc.client = "None"
        /\ connection # "open" /\ channel # "open"
        /\ pools.open = {}

\* the manager's four handles
Handles == <<channel, connection, feature_queue_obj, dlq_queue_obj>>

\* a disconnect() has returned and no connect() has succeeded since
AfterDisconnect == dc.rets > 0 /\ dc.pc = "idle" /\ connection = "None"

\* C15: disconnect() never raises, whatever the close calls do (every call
\* that is over has returned); it attempts the channel close before the
\* connection close; when it returns the four handles are None, so
\* is_connected() is False and a publish() entered then fails with
\* PublishError; a disconnect() called again then closes nothing, changes
\* nothing and returns at once.
C15_DisconnectSafe ==
    /\ [](dc.pc \in {"idle", "chan", "conn"})
    /\ [](dc.pc = "idle" => dc.rets = dc.calls)
    /\ [](\A i, j \in 1..Len(dc.log) :
            (i < j /\ dc.log[i].call = dc.log[j].call) =>
                dc.log[i].what = "channel" /\ dc.log[j].what = "connection")
    /\ [][(dc'.calls = dc.calls + 1 /\ channel # "None") => dc'.pc = "chan"]_vars
    /\ [][(dc.pc = "chan" /\ dc'.pc # "chan" /\ connection # "None") =>
              /\ dc'.pc = "conn"
              /\ Len(dc'.log) = Len(dc.log) + 1
              /\ dc'.log[Len(dc'.log)].what = "channel"]_vars
    /\ [][dc'.rets = dc.rets + 1 =>
              /\ channel' = "None" /\ connection' = "None"
              /\ ~feature_queue_obj' /\ ~dlq_queue_obj'
              /\ ~is_connected']_vars
    /\ [][(AfterDisconnect /\ RestTotal' = RestTotal + 1) =>
              /\ pubRes'["rest"].result = "PublishError"
              /\ pubRes'["rest"].n = pubRes["rest"].n + 1
              /\ queue' = queue]_vars
    /\ [][(AfterDisconnect /\ dc'.calls = dc.calls + 1) =>
              /\ dc'.pc = "idle" /\ dc'.rets = dc.rets + 1
              /\ dc'.log = dc.log
              /\ Handles' = Handles]_vars

C15_Witness ==
    /\ dc.calls = 2 /\ dc.rets = 2
    /\ Len(dc.log) = 2
    /\ dc.log[1] = [call |-> 1, what |-> "channel", ok |-> FALSE]
    /\ dc.log[2] = [call |-> 1, what |-> "connection", ok |-> TRUE]
    /\ pubRes["rest"].result = "PublishError"
    /\ connection = "None"

\* the well-formed record's olay_tipi is one of the prompt's values, and a
\* record passes the checks the service is meant to make (section on
\* validation: seven vocabularies) when it passes _validate_features and
\* its olay_tipi is one of them
InVocabularies(features) ==
    /\ validate_features(features)
    /\ features["olay_tipi"].v \in olay_tipi_values

\* the latest send attempt of the call got a parsed record
GotRecord == en.resp # <<>> /\ en.rec # NoRecord /\ en.pc # "sending"

\* C16 as claimed: every row of extracted_features holds a record that
\* satisfies all validation rules: required fields, types, ranges, the
\* vocabularies of the enum fields, institution structure, asset and
\* direction whitelists.
C16_Claim == \A row \in rows : InVocabularies(Build(row.rec))

\* what C17 lists: a required field missing, a confidence or score outside
\* [0,1], alt_kategori outside [0,13], an enum field outside its
\* vocabulary, an asset token or a direction outside its whitelist
C17_Defects ==
    {d \in Descriptors :
        d[1] \in {"missing", "above", "below", "off_vocabulary", "bad_asset",
                  "bad_direction"}}

\* C17 as claimed: a response with one of these defects makes
\* _validate_features raise GrokParseError and extract_and_save return
\* False, and no row is inserted for the call.
C17_Claim ==
    (GotRecord /\ en.rec \in C17_Defects) =>
        /\ en.pc = "idle" /\ en.raised = "GrokParseError" /\ en.out = "False"
        /\ \A row \in rows : row.call # en.calls

\* C18 as claimed: a record in which one of the seven string fields holds a
\* string outside its vocabulary is rejected by validation.
C18_Claim ==
    \A f \in string_fields :
        (GotRecord /\ en.rec = <<"off_vocabulary", f>>) =>
            en.raised = "GrokParseError"

\* the send attempts of the call so far
Sends == Len(en.resp) + (IF en.pc = "sending" THEN 1 ELSE 0)

TransportFailure(r) == r.transport \in {"timeout", "connect_error"}

\* C19: within one extract_features call, attempt k that fails with a
\* timeout or a transport-connect failure and k < max_retries is followed
\* by a wait of 2^k seconds and then by attempt k+1; there are never more
\* than max_retries send attempts; when attempt max_retries fails that
\* way, the timeout or connection error is raised to the caller.
C19_TransportRetry ==
    /\ Sends <= grok.max_retries
    /\ Sends = en.attempt
    /\ \A k \in 1..Len(en.resp) :
          TransportFailure(en.resp[k]) =>
              IF k < grok.max_retries
              THEN /\ Len(en.waits) >= k
                   /\ en.waits[k] = 2 ^ k
                   /\ (k = Len(en.resp) /\ en.pc = "backoff") \/ Sends >= k + 1
              ELSE /\ en.pc = "idle"
                   /\ en.raised = send_request(en.resp[k])
                   /\ en.out = "False"
    /\ Len(en.waits) <= Len(en.resp)
    /\ \A k \in 1..Len(en.waits) : TransportFailure(en.resp[k])

C19_Witness ==
    /\ grok.max_retries = 3
    /\ Len(en.resp) = 3
    /\ en.resp[1].transport = "timeout"
    /\ en.resp[2].transport = "connect_error"
    /\ en.resp[3].transport = "timeout"
    /\ en.waits = <<2, 4>>
    /\ en.raised = "GrokTimeoutError"
    /\ en.pc = "idle"

\* C20 as claimed: after a 5xx response to attempt k < max_retries,
\* extract_features makes a further send attempt instead of raising.
C20_Claim ==
    \A k \in 1..Len(en.resp) :
        (en.resp[k].transport = "ok" /\ en.resp[k].status >= 500
         /\ k < grok.max_retries) =>
            /\ en.raised = "none"
            /\ en.pc = "backoff" \/ Sends >= k + 1

\* C21 as claimed: after a 429 response to attempt k < max_retries,
\* extract_features waits and makes a further send attempt; it raises only
\* when the attempt cap is exhausted.
C21_Claim ==
    \A k \in 1..Len(en.resp) :
        (en.resp[k].transport = "ok" /\ en.resp[k].status = 429
         /\ k < grok.max_retries) =>
            /\ en.raised = "none"
            /\ Len(en.waits) >= k
            /\ en.pc = "backoff" \/ Sends >= k + 1

\* the send attempt that ends in this step got an authentication failure,
\* an unparsable payload or a record that validation rejects
TerminalResponse ==
    /\ en.pc = "sending"
    /\ Len(en'.resp) = Len(en.resp) + 1
    /\ send_request(en'.resp[Len(en'.resp)]) \in {"GrokAuthError", "GrokParseError"}

MaxDenemeler == {0, 1, 3, 6}

\* loop.time() % 0.25, in hundredths of a second
JitterModulus == 25

\* jitter = (loop.time() % 0.25)
Jitter(loop_time) == loop_time % JitterModulus

\* variant: no cap
StoreBackoffUncapped(deneme) == Pow2(deneme)

\* min(8, 2 ** deneme), the whole seconds of bekleme_suresi
StoreBackoff(deneme) == IF Pow2(deneme) < 8 THEN Pow2(deneme) ELSE 8

\* the head of the for loop: the next attempt, or range(max_deneme) is
\* used up and the method falls off its end, returning None
DbLoop(d) ==
    IF d.deneme < d.max_deneme
    THEN [d EXCEPT !.pc = "trying"]
    ELSE [d EXCEPT !.pc = "idle", !.out = "None"]

\* a REST handler calls haberleri_getir or haber_durumunu_guncelle
DbCall(op, haber_id, yeni_durum, md) ==
    /\ svc.pc = "running"
    /\ pool["main"] # 0
    /\ db.pc = "idle"
    /\ db.calls < MaxDbCalls
    /\ db' = DbLoop([NoDb EXCEPT !.calls = db.calls + 1, !.op = op,
                                 !.haber_id = haber_id,
                                 !.yeni_durum = yeni_durum,
                                 !.max_deneme = md])
    /\ UNCHANGED <<now, qvars, lvars, pvars, dc, grok, en, rows, approved>>

\* the rows haberleri_getir selects
Pending == {a \in DOMAIN approved : approved[a] = "semantik_analiz_icin_sirada"}

\* one attempt is over: the query returned, or one of the except clauses
DbAttempt ==
    /\ db.pc = "trying"
    \* the query succeeds, asyncpg raises a PostgresError, or something
    \* else is raised; loop.time() at the jitter, in hundredths of a second
    /\ \E res \in {"ok", "PostgresError", "Exception"}, loop_time \in {0, 274} :
        LET seen == [db EXCEPT !.tried = Append(@, res)] IN
        IF res = "ok"
        THEN IF db.op = "haber_durumunu_guncelle"
             THEN IF db.haber_id \in DOMAIN approved
                  THEN /\ approved' = [approved EXCEPT ![db.haber_id] = db.yeni_durum]
                       /\ db' = [seen EXCEPT !.pc = "idle", !.out = "True"]
                  ELSE /\ approved' = approved
                       /\ db' = [seen EXCEPT !.pc = "idle", !.out = "False"]
             ELSE /\ approved' = approved
                  /\ db' = [seen EXCEPT !.pc = "idle", !.out = "haberler",
                                        !.haberler = Pending]
        ELSE IF res = "PostgresError" /\ db.deneme # db.max_deneme - 1
        THEN /\ approved' = approved
             /\ db' = [seen EXCEPT !.pc = "sleeping",
                                   !.waits = Append(@, [base |-> StoreBackoff(db.deneme),
                                                        jitter |-> Jitter(loop_time)])]
        ELSE /\ approved' = approved
             /\ db' = [seen EXCEPT !.pc = "idle", !.raised = res]
    /\ UNCHANGED <<now, qvars, lvars, pvars, dc, grok, en, rows>>

\* asyncio.sleep(bekleme_suresi) is over (the clock counts its whole
\* seconds): the next attempt
DbWake ==
    /\ db.pc = "sleeping"
    /\ now' = now + db.waits[Len(db.waits)].base
    /\ db' = DbLoop([db EXCEPT !.deneme = @ + 1])
    /\ UNCHANGED <<qvars, lvars, pvars, dc, grok, en, rows, approved>>

InitStore == InitService

NextStore ==
    \/ SvcStart
    \/ AcCreated("lifespan")
    \/ SvcConnectBroker
    \/ SvcConsumerStart
    \/ SvcStartFailed
    \/ \E md \in MaxDenemeler : DbCall("haberleri_getir", 0, "", md)
    \/ \E a \in Articles, md \in MaxDenemeler,
         d \in {"processing", "semantik_analizden_gecti", "failed"} :
           DbCall("haber_durumunu_guncelle", a, d, md)
    \/ DbAttempt
    \/ DbWake

SpecStore == InitStore /\ [][NextStore]_vars

\* an extract_and_save call is entered in this step
Called == en.pc = "idle" /\ en'.calls = en.calls + 1

\* C23: every extract_and_save call that is over returned True or False,
\* whatever the fetch, the enrichment or the insert did (nothing raised
\* inside it reaches the caller); a call made while is_connected is False
\* is over at once with False, with no fetch, no enrichment call and no
\* insert.
C23_AlwaysBoolean ==
    [][/\ (en'.pc = "idle" /\ en'.calls > 0) => en'.out \in {"True", "False"}
       /\ (Called /\ ~svc.is_connected) =>
              /\ en'.pc = "idle"
              /\ en'.out = "False"
              /\ en'.steps = <<>>
              /\ en'.fetched = "none"
              /\ grok' = grok
              /\ rows' = rows
              /\ poolFaults' = poolFaults]_vars

\* the second call fetched a row without content and ValueError was
\* raised inside extract_and_save, which returned False; nothing is stored
C23_Witness ==
    /\ en.calls = 2
    /\ en.pc = "idle"
    /\ en.raised = "ValueError"
    /\ en.steps = <<"fetch">>
    /\ en.out = "False"
    /\ rows = {}

\* the rows the call in progress (or the latest call) inserted
RowsOfCall == {r \in rows : r.call = en.calls}

\* C24: a call goes through fetch, enrichment and persistence in this
\* order, each at most once; when the store has no row for the article the
\* call is over with False after the one fetch, with no enrichment request
\* and no insert.
C24_FetchEnrichPersist ==
    /\ en.steps \in {<<>>, <<"fetch">>, <<"fetch", "enrich">>,
                     <<"fetch", "enrich", "persist">>}
    /\ RowsOfCall # {} => en.steps = <<"fetch", "enrich", "persist">>
    /\ en.fetched = "no_row" =>
           /\ en.pc = "idle"
           /\ en.out = "False"
           /\ en.raised = "none"
           /\ en.steps = <<"fetch">>
           /\ en.resp = <<>>
           /\ RowsOfCall = {}

\* the second call asked for an article the store has no row for, after a
\* first call that went through the three stages and stored a record
C24_Witness ==
    /\ en.calls = 2
    /\ en.fetched = "no_row"
    /\ en.out = "False"
    /\ grok.requests_sent = 1
    /\ \E r \in rows : r.call = 1

ReturnedTrue == en.pc # "idle" /\ en'.pc = "idle" /\ en'.out = "True"

\* C26: no step removes or changes a stored record; a step adds records
\* only when an extract_and_save run returns True, and then it adds exactly
\* one, also when the article already has a record.
C26_AppendOnly ==
    [][/\ rows \subseteq rows'
       /\ ReturnedTrue => Cardinality(rows') = Cardinality(rows) + 1
       /\ rows' # rows => ReturnedTrue]_vars

\* two runs for article 2 returned True: two records of that article,
\* the first one as it was stored
C26_Witness ==
    /\ en.calls = 2
    /\ en.out = "True"
    /\ Cardinality({r \in rows : r.article_id = 2}) = 2
    /\ \E r \in rows : r.call = 1 /\ r.article_id = 2

\* C27 as claimed: the processing_time_ms of a stored record is the time
\* from the start of its extract_and_save run to the persist step, in
\* milliseconds.
C27_Claim ==
    \A r \in rows : r.processing_time_ms = (r.extraction_date - r.started) * 1000

\* C28: a call of haberleri_getir or haber_durumunu_guncelle makes at most
\* max_deneme attempts; a PostgresError on attempt i < max_deneme is
\* followed by a wait of min(8, 2^(i-1)) seconds plus a jitter below one
\* second and then by attempt i + 1; a PostgresError on attempt max_deneme
\* is raised; any other error is raised on its attempt, with no wait and
\* no further attempt.
C28_StoreRetry ==
    /\ Len(db.tried) <= db.max_deneme
    /\ \A i \in 1..Len(db.tried) :
        /\ (db.tried[i] = "PostgresError" /\ i < db.max_deneme) =>
               /\ Len(db.waits) >= i
               /\ db.waits[i].base = (IF 2^(i-1) < 8 THEN 2^(i-1) ELSE 8)
               /\ db.waits[i].jitter \in 0..99
               /\ \/ db.pc = "sleeping" /\ Len(db.tried) = i
                  \/ db.pc = "trying" /\ Len(db.tried) = i
                  \/ Len(db.tried) >= i + 1
        /\ (db.tried[i] = "PostgresError" /\ i = db.max_deneme) =>
               /\ db.pc = "idle"
               /\ db.raised = "PostgresError"
               /\ db.out = "none"
               /\ Len(db.waits) = i - 1
        /\ db.tried[i] = "Exception" =>
               /\ i = Len(db.tried)
               /\ db.pc = "idle"
               /\ db.raised = "Exception"
               /\ db.out = "none"
               /\ Len(db.waits) = i - 1

\* haber_durumunu_guncelle with max_deneme 6: five PostgresErrors, waits of
\* 1, 2, 4, 8 and 8 seconds, and the sixth attempt updates the status
C28_Witness ==
    /\ db.op = "haber_durumunu_guncelle"
    /\ db.max_deneme = 6
    /\ Len(db.tried) = 6
    /\ db.tried[5] = "PostgresError"
    /\ db.tried[6] = "ok"
    /\ [i \in 1..5 |-> db.waits[i].base] = <<1, 2, 4, 8, 8>>
    /\ db.waits[5].jitter = 24
    /\ db.out = "True"
    /\ approved[2] = "failed"

\* C29 as claimed: when the store fails on the fetch by id, the error
\* reaches the caller of haber_id_ile_getir: extract_and_save does not end
\* by its "article not found" return.
C29_Claim ==
    en.fetched = "error" =>
        ~(en.pc = "idle" /\ en.raised = "none" /\ en.out = "False")

\* extract_and_save failed inside the callback of the delivery in hand
FailedInside == hd.why \in FailureKinds \cup {"not_found"}

\* C30: whatever the failure inside the callback was (authentication,
\* validation, connection, API error or a missing article), the callback
\* answers False and the handler takes the retry branch when retry_count <
\* max_retries and the terminal branch otherwise: the nack comes first, a
\* sleep and a republish happen only with retries left.
C30_BooleanAndCountOnly ==
    [][/\ (cons.pc = "callback" /\ FailedInside') =>
              /\ hd'.cb = "False"
              /\ cons'.pc = IF hd.msg.retry_count < max_retries
                            THEN "nack_retry"
                            ELSE "nack_term"
       /\ FailedInside' =>
              /\ hd'.cb = "False"
              /\ hd'.ev # <<>> => hd'.ev[1] \in {"nack", "nack_raised"}
              /\ (Has(hd'.ev, "sleep") \/ Has(hd'.ev, "publish")
                  \/ Has(hd'.ev, "publish_raised")) =>
                     /\ hd'.msg.retry_count < max_retries
                     /\ hd'.ev[1] = "nack"
              /\ Has(hd'.ev, "publish") => Has(hd'.ev, "sleep")]_vars

\* a delivery that failed on authentication, a failure extract_and_save
\* logs as not worth retrying, was nacked, slept for and republished
C30_Witness ==
    /\ hd.why = "GrokAuthError"
    /\ hd.msg.retry_count = 0
    /\ hd.ev = <<"nack", "sleep", "publish">>
    /\ hd.pubs = <<Republished>>
    /\ hd.done

\* C31 as claimed: a delivery whose body is not JSON, is JSON but not an
\* object, or is an object without article_id is nacked in its first
\* handling with nothing slept and nothing republished for it.
C31_Claim ==
    hd.msg.kind \in {"notjson", "notobj", "noid"} =>
        /\ hd.slept = 0
        /\ hd.pubs = <<>>
        /\ ~Has(hd.ev, "sleep") /\ ~Has(hd.ev, "publish")
        /\ cons.pc \notin {"nack_retry", "backoff", "publishing"}

\* C33 as claimed: with a rate limit set, any two consecutive requests of
\* the GrokClient are at least 60 / rate_limit seconds apart, retries
\* inside one extract_features call included.
C33_Claim ==
    lim.rate_limit > 0 =>
        \A i \in 1..(Len(grok.sent_at) - 1) :
            (grok.sent_at[i + 1] - grok.sent_at[i]) * lim.rate_limit >= 60

\* C34 as claimed: with a rate limit set and two tasks sharing the client,
\* any two requests are at least 60 / rate_limit seconds apart under every
\* interleaving of the tasks.
C34_Claim ==
    lim.rate_limit > 0 =>
        \A i, j \in 1..Len(grok.sent_at) :
            i < j => (grok.sent_at[j] - grok.sent_at[i]) * lim.rate_limit >= 60

C36_Claim ==
    en.pc \in {"idle", "saving"} =>
        grok.requests_sent = grok.requests_success + grok.requests_failed

\* C37 as claimed: when extract_features has returned (the persist step
\* follows), it returned a record, and one that _validate_features let
\* through.
C37_Claim ==
    en.pc = "saving" =>
        /\ en.rec # NoRecord
        /\ validate_features(Build(en.rec))

\* C38: whenever is_connected() returns True both queue objects are set; in
\* particular after a connect() that raised, also one whose queue
\* declaration failed after the channel was opened, is_connected() is False
C38_Claim ==
    is_connected => (feature_queue_obj /\ dlq_queue_obj)

\* the delivery in hand met one of the three failures: the callback raised,
\* message.ack() raised, or the republish raised
C39_ErrCase ==
    \/ hd.cb = "raise"
    \/ Has(hd.ev, "ack_raised")
    \/ Has(hd.ev, "publish_raised")

\* what the handler did after that failure
C39_After ==
    IF hd.cb = "raise" THEN hd.ev
    ELSE LET i == CHOOSE k \in 1..Len(hd.ev) :
                      hd.ev[k] \in {"ack_raised", "publish_raised"}
         IN  SubSeq(hd.ev, i + 1, Len(hd.ev))

C40_FailedCreateLeavesNothing ==
    [][\A t \in PoolTasks :
          (dbTask[t].pc = "creating" /\ dbTask'[t].pc = "raised") =>
              LET m == dbTask[t].mgr IN
              /\ pool[m] = 0
              /\ pool' = pool
              /\ pools' = pools
              /\ pool_lock'[m].holder = "none"
              /\ pool_lock'[m].waiters = pool_lock[m].waiters
              /\ dbTask'[t].rets = dbTask[t].rets]_vars

\* the creation in t1's first call failed; t2's only call then made the
\* pool of the main manager, and t1's second call returned that pool
C40_Witness ==
    /\ poolFaults < MaxPoolFaults
    /\ dbTask["t2"].rets = <<Returned("main", 1, "created")>>
    /\ dbTask["t1"].rets = <<Returned("main", 1, "unlocked check")>>
    /\ dbTask["t1"].calls = 2
    /\ dbTask["t2"].calls = 1
    /\ pool["main"] = 1
    /\ pool_lock["main"].holder = "none"

(***************************************************************************)
(* The counters scenario: the operations of the queue manager and of the   *)
(* enrichment client in any order, one at a time (a queue operation is     *)
(* begun when no extraction is under way, an extraction when the consumer  *)
(* and the publishers are between two operations).                         *)
(***************************************************************************)
\* variant: the counters start again with the new connection
on_reconnect_fresh(m) ==
    [messages_published |-> 0, messages_consumed |-> 0,
     publish_errors |-> 0, consume_errors |-> 0,
     reconnections |-> m.reconnections + 1, rate_limit_hits |-> 0]

\* _on_reconnect: metrics["reconnections"] += 1
on_reconnect(m) == [m EXCEPT !.reconnections = @ + 1]

\* the robust connection was re-established and calls its reconnect
\* callbacks
OnReconnect ==
    /\ connection = "open"
    /\ metrics.reconnections < MaxReconnects
    /\ metrics' = on_reconnect(metrics)
    /\ UNCHANGED <<now, rate_limit, connection, channel, feature_queue_obj,
                   dlq_queue_obj, queue, dlq, cons, hd, pub, pubRes,
                   restCalls, foreign, faultsLeft, cbLog, sleepLog, lvars, xvars>>

\* one reply of each kind the counters tell apart: counted as failed, not
\* counted, a success after a first parse failure
MetricResponses ==
    {Response("timeout", 0, "none", NoRecord),
     Response("ok", 429, "none", NoRecord),
     Response("ok", 200, "fenced", <<"valid", "">>)}

InitMetrics ==
    /\ InitCommon
    /\ rate_limit = 4
    /\ connection = "None"
    /\ channel = "None"
    /\ feature_queue_obj = FALSE
    /\ dlq_queue_obj = FALSE
    /\ cons = [pc |-> "init", delay |-> 0]
    /\ faultsLeft = MaxFaults
    /\ poolFaults = 0
    /\ grok = NoGrok
    /\ lim = [NoLimiter EXCEPT !.kind = "grok", !.rate_limit = 4]

NextMetrics ==
    \/ SvcStart
    \/ AcCreated("lifespan")
    \/ SvcConsumerStart
    \/ (en.pc = "idle" /\ SvcConnectBroker)
    \/ (en.pc = "idle" /\ Connect)
    \/ (en.pc = "idle" /\ Disconnect)
    \/ (en.pc = "idle" /\ OnReconnect)
    \/ (en.pc = "idle" /\ SvcConsume)
    \/ (en.pc = "idle" /\ SvcQueueArticle(2))
    \/ (en.pc = "idle" /\ \E p \in Callers : PublishWake(p))
    \/ (en.pc = "idle" /\ \E p \in Callers : PublishSend(p))
    \/ (en.pc = "idle" /\ Receive)
    \/ (en.pc = "idle" /\ CallbackReturn)
    \/ (en.pc = "idle" /\ Ack)
    \/ (en.pc = "idle" /\ NackRetry)
    \/ (en.pc = "idle" /\ BackoffWake)
    \/ (en.pc = "idle" /\ NackTerm)
    \/ (en.pc = "idle" /\ NackErr)
    \/ (en.pc = "idle" /\ Cancel)
    \/ (/\ cons.pc \in {"init", "idle", "crashed", "cancelled"}
        /\ \A p \in Callers : pub[p].pc = "idle"
        /\ EnCall(2))
    \/ EnArticle
    \/ EnRateWake
    \/ \E r \in MetricResponses, u \in Usages : EnResponseOf(r, u)
    \/ EnBackoffWake
    \/ EnSaved

SpecMetrics == InitMetrics /\ [][NextMetrics]_vars

\* C32: no step lowers a counter of the queue manager's metrics or of the
\* enrichment client's metrics (its rate_limit_hits is kept with the
\* limiter), whatever the operation: connect, publish, consume, handle,
\* extract, disconnect, reconnect
C32_CountersNeverDecrease ==
    [][/\ \A k \in DOMAIN metrics : metrics'[k] >= metrics[k]
       /\ grok'.requests_sent >= grok.requests_sent
       /\ grok'.requests_success >= grok.requests_success
       /\ grok'.requests_failed >= grok.requests_failed
       /\ grok'.parse_errors >= grok.parse_errors
       /\ grok'.total_tokens_used >= grok.total_tokens_used
       /\ lim'.rate_limit_hits >= lim.rate_limit_hits]_vars

\* counters of both objects have moved: publishes, an acked delivery, a
\* recovery, rate limit waits, requests sent, failed and answered with a
\* usage entry
C32_Witness ==
    /\ metrics.messages_published > 0
    /\ metrics.messages_consumed > 0
    /\ metrics.reconnections > 0
    /\ metrics.rate_limit_hits > 0
    /\ grok.requests_sent > 1
    /\ grok.requests_failed > 0
    /\ grok.total_tokens_used > 0
    /\ lim.rate_limit_hits > 0

====
